---- MODULE Spec2Model ----
(***************************************************************************)
(* A model of the tile renderer of shader_test: the colour blend           *)
(* (src/color.rs), the pixel buffer (src/pixel_buffer.rs) and the Map of   *)
(* src/lib.rs with its autotile table, its line-of-sight sampler and its   *)
(* render.                                                                 *)
(*                                                                         *)
(* Numbers.  The program computes on f64.  The model computes the same     *)
(* expressions over the reals, exactly: a coordinate is a rational kept as *)
(* a numerator over the denominator q of its Point, and a blend factor is  *)
(* a number (a - b*sqrt(n)) / d.  In render and merge f64 rounding is      *)
(* therefore not modelled: the two agree except where the real value of a  *)
(* truncated or compared expression lies within rounding error of an       *)
(* integer.  The calls of blend, interpolate and brighten on colours       *)
(* (SpecColor) are computed on f64 itself, bit for bit.                    *)
(*                                                                         *)
(* Memory.  A Vec<u8> is a function on 0 .. len-1.  Color and Color3 are   *)
(* laid out in declaration order (r, g, b, a), which is what rustc does    *)
(* for these structs and what the Index implementations rely on.           *)
(***************************************************************************)
EXTENDS Integers, Sequences, FiniteSets, TLC

(***************************************************************************)
(* Bounds of the model.                                                    *)
(***************************************************************************)
\* Map of the render specification: height * width * sim_scale <= MaxExtent.
MaxExtent == 2
\* add_light is called at most MaxLights times.
MaxLights == 2
\* render is called at most MaxRenders times.
MaxRenders == 2
\* Maps of the neighbour-bitmap specification: height, width <= MaxSide and
\* height * width <= MaxCells.
MaxSide == 3
MaxCells == 9
\* Maps of the line-of-sight specification: height * width <= MaxLosCells.
MaxLosCells == 2
\* PixelBuffers: width * height <= MaxPixels.
MaxPixels == 2
\* Calls of merge_pixel_layer in a row.
MaxMerges == 2
\* Factors of upscale and save_upscaled: at most MaxFactor.
MaxFactor == 2
\* Calls in a row on one PixelBuffer, which upscale leaves with at most
\* MaxUpscaled pixels.
MaxCalls == 3
MaxUpscaled == 8
\* Workers that share the pixels of one render.
MaxWorkers == 3

(***************************************************************************)
(* Program constants.                                                      *)
(***************************************************************************)
\* Pixels per tile side: the literal 8 of `height * 8 * sim_scale`.
TileSize == 8
\* Row length of the atlas in texels: the literal 64 of `tex_y * 64 + tex_x`.
AtlasWidth == 64
\* Samples per grid unit of point_has_los.
LosDensity == 20

(***************************************************************************)
(* f64 helpers.                                                            *)
(***************************************************************************)
RECURSIVE SqrtSearch(_, _, _)
\* The greatest k in lo .. hi with k*k <= x, given lo*lo <= x.
SqrtSearch(x, lo, hi) ==
    IF lo >= hi THEN lo
    ELSE LET mid == (lo + hi + 1) \div 2
         IN  IF mid * mid <= x THEN SqrtSearch(x, mid, hi)
                               ELSE SqrtSearch(x, lo, mid - 1)

\* floor(sqrt(x)) and ceil(sqrt(x)) of a natural number x.
FloorSqrt(x) == SqrtSearch(x, 0, IF x < 46340 THEN x ELSE 46340)
CeilSqrt(x) == LET r == FloorSqrt(x) IN IF r * r = x THEN r ELSE r + 1

\* `v as usize` / `v as u32` of the f64 num/q: truncation, saturating at 0.
AsUsize(num, q) == IF num < 0 THEN 0 ELSE num \div q

\* The function f itself. Comparing it makes the model checker tabulate it,
\* so that its body is evaluated once per argument and not once per use.
Tabulated(f) == IF f = f THEN f ELSE f

\* A blend factor, the real number (a - b*sqrt(n)) / d with b, n >= 0 < d.
Rational(num, den) == [a |-> num, b |-> 0, n |-> 0, d |-> den]
FactorNegative(f) == IF f.a < 0 THEN TRUE ELSE f.a * f.a < f.b * f.b * f.n
FactorAboveOne(f) == f.a - f.d > 0 /\ (f.a - f.d) * (f.a - f.d) > f.b * f.b * f.n

\* f64::clamp(0.0, 1.0)
Clamp01(f) ==
    IF FactorNegative(f) THEN Rational(0, 1)
    ELSE IF FactorAboveOne(f) THEN Rational(1, 1)
    ELSE f

(***************************************************************************)
(* src/color.rs                                                            *)
(***************************************************************************)
\* BlendChannel with the weights exchanged: s * (1.0 - factor) + o * factor.
BlendChannel_Swapped(s, o, f) ==
    LET X == s * f.d + (o - s) * f.a
        Y == (o - s) * f.b
    IN  IF Y >= 0 THEN (X - CeilSqrt(Y * Y * f.n)) \div f.d
                  ELSE (X + FloorSqrt(Y * Y * f.n)) \div f.d

\* (s as f64 * factor + o as f64 * (1.0 - factor)) as u8, factor in [0, 1]:
\* the floor of o + (s - o) * (a - b*sqrt(n)) / d.
BlendChannel(s, o, f) ==
    LET X == o * f.d + (s - o) * f.a
        Y == (s - o) * f.b
    IN  IF Y >= 0 THEN (X - CeilSqrt(Y * Y * f.n)) \div f.d
                  ELSE (X + FloorSqrt(Y * Y * f.n)) \div f.d

\* Color::blend
Color_blend(self, other, factor) ==
    LET f == Clamp01(factor)
    IN  [r |-> BlendChannel(self.r, other.r, f),
         g |-> BlendChannel(self.g, other.g, f),
         b |-> BlendChannel(self.b, other.b, f),
         a |-> BlendChannel(self.a, other.a, f)]

\* Color3::blend with the factor weighting `other`, as its doc comment has it.
Color3_blend_DocOrder(self, other, factor) ==
    LET f == Clamp01(factor)
    IN  [r |-> BlendChannel(other.r, self.r, f),
         g |-> BlendChannel(other.g, self.g, f),
         b |-> BlendChannel(other.b, self.b, f)]

\* Color3::blend
Color3_blend(self, other, factor) ==
    LET f == Clamp01(factor)
    IN  [r |-> BlendChannel(self.r, other.r, f),
         g |-> BlendChannel(self.g, other.g, f),
         b |-> BlendChannel(self.b, other.b, f)]

(***************************************************************************)
(* f64, for the calls of blend and interpolate with a factor that is an    *)
(* f64 given bit for bit.  A finite f64 is (-1)^neg * m * 2^e with m a     *)
(* natural number below 2^53, kept as its sequence of digits in base 2^15, *)
(* lowest first and without leading zeros; every operation computes the    *)
(* exact result and rounds it to 53 bits, to nearest, ties to even, as     *)
(* IEEE 754 does.  The magnitudes met here stay far from overflow and from *)
(* the subnormals; the infinities are left out.                            *)
(***************************************************************************)
LimbBits == 15
LimbBase == 2 ^ LimbBits

RECURSIVE LimbsOfNat(_)
LimbsOfNat(n) ==
    IF n = 0 THEN <<>> ELSE <<n % LimbBase>> \o LimbsOfNat(n \div LimbBase)

RECURSIVE TrimLimbs(_)
\* a without its leading zeros
TrimLimbs(a) ==
    IF a = <<>> THEN a
    ELSE IF a[Len(a)] # 0 THEN a
    ELSE TrimLimbs(SubSeq(a, 1, Len(a) - 1))

LimbAt(a, i) == IF i <= Len(a) THEN a[i] ELSE 0

RECURSIVE AddLimbsFrom(_, _, _, _)
AddLimbsFrom(a, b, i, carry) ==
    IF i > Len(a) /\ i > Len(b)
    THEN IF carry = 1 THEN <<1>> ELSE <<>>
    ELSE LET t == LimbAt(a, i) + LimbAt(b, i) + carry
         IN  <<t % LimbBase>> \o AddLimbsFrom(a, b, i + 1, t \div LimbBase)

\* a + b
AddLimbs(a, b) == AddLimbsFrom(a, b, 1, 0)

RECURSIVE SubLimbsFrom(_, _, _, _)
SubLimbsFrom(a, b, i, borrow) ==
    IF i > Len(a) THEN <<>>
    ELSE LET t == LimbAt(a, i) - LimbAt(b, i) - borrow
         IN  <<t % LimbBase>> \o SubLimbsFrom(a, b, i + 1, IF t < 0 THEN 1 ELSE 0)

\* a - b, for a >= b
SubLimbs(a, b) == TrimLimbs(SubLimbsFrom(a, b, 1, 0))

RECURSIVE ScaleLimbsFrom(_, _, _, _)
ScaleLimbsFrom(a, d, i, carry) ==
    IF i > Len(a)
    THEN IF carry = 0 THEN <<>> ELSE <<carry>>
    ELSE LET t == a[i] * d + carry
         IN  <<t % LimbBase>> \o ScaleLimbsFrom(a, d, i + 1, t \div LimbBase)

\* a * d, for a digit d
ScaleLimbs(a, d) == TrimLimbs(ScaleLimbsFrom(a, d, 1, 0))

RECURSIVE MulLimbs(_, _)
\* a * b
MulLimbs(a, b) ==
    IF a = <<>> \/ b = <<>> THEN <<>>
    ELSE LET rest == MulLimbs(Tail(a), b)
         IN  AddLimbs(ScaleLimbs(b, a[1]), IF rest = <<>> THEN rest ELSE <<0>> \o rest)

RECURSIVE LessLimbsFrom(_, _, _)
LessLimbsFrom(a, b, i) ==
    IF i = 0 THEN FALSE
    ELSE IF a[i] # b[i] THEN a[i] < b[i]
    ELSE LessLimbsFrom(a, b, i - 1)

\* a < b
LessLimbs(a, b) ==
    IF Len(a) # Len(b) THEN Len(a) < Len(b) ELSE LessLimbsFrom(a, b, Len(a))

\* The number of bits of a
BitLength(a) ==
    IF a = <<>> THEN 0
    ELSE LimbBits * (Len(a) - 1)
         + (CHOOSE k \in 1 .. LimbBits : 2 ^ (k - 1) <= a[Len(a)] /\ a[Len(a)] < 2 ^ k)

\* Bit i of a, the lowest being bit 1
BitOf(a, i) ==
    (LimbAt(a, ((i - 1) \div LimbBits) + 1) \div 2 ^ ((i - 1) % LimbBits)) % 2

\* a * 2^k
ShiftLeftLimbs(a, k) ==
    IF a = <<>> THEN a
    ELSE [i \in 1 .. k \div LimbBits |-> 0] \o ScaleLimbs(a, 2 ^ (k % LimbBits))

\* a \div 2^k
ShiftRightLimbs(a, k) ==
    LET w == k \div LimbBits
        r == k % LimbBits
    IN  IF Len(a) <= w THEN <<>>
        ELSE TrimLimbs([j \in 1 .. Len(a) - w |->
                          (a[j + w] \div 2 ^ r)
                          + (LimbAt(a, j + w + 1) % 2 ^ r) * 2 ^ (LimbBits - r)])

F64NaN == [nan |-> TRUE, neg |-> FALSE, m |-> <<>>, e |-> 0]

\* (-1)^neg * m * 2^e rounded to 53 bits, to nearest, ties to even
F64Round(neg, m, e) ==
    IF BitLength(m) <= 53 THEN [nan |-> FALSE, neg |-> neg, m |-> m, e |-> e]
    ELSE LET k == BitLength(m) - 53
             q == ShiftRightLimbs(m, k)
             sticky == \E i \in 1 .. k - 1 : BitOf(m, i) = 1
             up == BitOf(m, k) = 1 /\ (sticky \/ BitOf(q, 1) = 1)
         IN  [nan |-> FALSE, neg |-> neg,
              m |-> IF up THEN AddLimbs(q, <<1>>) ELSE q, e |-> e + k]

\* n as f64, for a natural number n below 2^31
F64FromNat(n) == [nan |-> FALSE, neg |-> FALSE, m |-> LimbsOfNat(n), e |-> 0]

\* The f64 (-1)^neg * (hi * 2^27 + lo) * 2^e, hi below 2^26 and lo below 2^27
F64FromParts(neg, hi, lo, e) ==
    [nan |-> FALSE, neg |-> neg,
     m |-> AddLimbs(ShiftLeftLimbs(LimbsOfNat(hi), 27), LimbsOfNat(lo)),
     e |-> e]

F64Neg(x) == [x EXCEPT !.neg = ~x.neg]

\* x * y
F64Mul(x, y) ==
    IF x.nan \/ y.nan THEN F64NaN
    ELSE F64Round(x.neg # y.neg, MulLimbs(x.m, y.m), x.e + y.e)

\* x + y
F64Add(x, y) ==
    IF x.nan \/ y.nan THEN F64NaN
    ELSE LET e == IF x.e < y.e THEN x.e ELSE y.e
             mx == ShiftLeftLimbs(x.m, x.e - e)
             my == ShiftLeftLimbs(y.m, y.e - e)
         IN  IF x.neg = y.neg THEN F64Round(x.neg, AddLimbs(mx, my), e)
             ELSE IF LessLimbs(mx, my) THEN F64Round(y.neg, SubLimbs(my, mx), e)
             ELSE F64Round(x.neg, SubLimbs(mx, my), e)

\* x - y
F64Sub(x, y) == F64Add(x, F64Neg(y))

\* x < y
F64Less(x, y) ==
    IF x.nan \/ y.nan THEN FALSE
    ELSE LET d == F64Sub(x, y) IN d.neg /\ d.m # <<>>

\* x used as it is, without the clamp
F64Clamp01_None(x) == x

\* x.clamp(0.0, 1.0); NaN stays NaN
F64Clamp01(x) ==
    IF x.nan THEN x
    ELSE IF F64Less(x, F64FromNat(0)) THEN F64FromNat(0)
    ELSE IF F64Less(F64FromNat(1), x) THEN F64FromNat(1)
    ELSE x

\* x as u8: towards zero, saturating, NaN to 0
F64AsU8(x) ==
    IF x.nan \/ x.neg \/ x.m = <<>> THEN 0
    ELSE IF BitLength(x.m) + x.e > 8 THEN 255
    ELSE IF x.e >= 0 THEN x.m[1] * 2 ^ x.e
    ELSE LimbAt(ShiftRightLimbs(x.m, -x.e), 1)

\* One channel of blend on f64: (s as f64 * factor + o as f64 * (1.0 - factor)) as u8
BlendChannelF64(s, o, factor) ==
    F64AsU8(F64Add(F64Mul(F64FromNat(s), factor),
                   F64Mul(F64FromNat(o), F64Sub(F64FromNat(1), factor))))

\* Color::blend, its factor an f64
Color_blend_f64(self, other, factor) ==
    LET f == F64Clamp01(factor)
    IN  [r |-> BlendChannelF64(self.r, other.r, f),
         g |-> BlendChannelF64(self.g, other.g, f),
         b |-> BlendChannelF64(self.b, other.b, f),
         a |-> BlendChannelF64(self.a, other.a, f)]

\* Color3::blend, its factor an f64
Color3_blend_f64(self, other, factor) ==
    LET f == F64Clamp01(factor)
    IN  [r |-> BlendChannelF64(self.r, other.r, f),
         g |-> BlendChannelF64(self.g, other.g, f),
         b |-> BlendChannelF64(self.b, other.b, f)]

\* One channel of interpolate: (s as f64 * (1.0 - t) + o as f64 * t) as u8
InterpolateChannel(s, o, t) ==
    F64AsU8(F64Add(F64Mul(F64FromNat(s), F64Sub(F64FromNat(1), t)),
                   F64Mul(F64FromNat(o), t)))

\* Color::interpolate
Color_interpolate(self, other, t) ==
    [r |-> InterpolateChannel(self.r, other.r, t),
     g |-> InterpolateChannel(self.g, other.g, t),
     b |-> InterpolateChannel(self.b, other.b, t),
     a |-> InterpolateChannel(self.a, other.a, t)]

\* i32::MAX
I32Max == 2147483647

\* Whether `v as i32 + amount` overflows i32, v being a u8.
AddOverflows(v, amount) == amount > I32Max - v

\* One channel of brighten where the sum does not overflow:
\* (v as i32 + amount).clamp(0, 255) as u8
BrightenChannel(v, amount) ==
    IF amount >= 255 - v THEN 255
    ELSE IF amount <= -v THEN 0
    ELSE v + amount

\* One channel of brighten where the sum overflows and the build wraps: the
\* sum is v + amount - 2^32, a negative number, and clamps to 0.
BrightenChannelWrapped(v, amount) ==
    LET sum == (amount - I32Max - 1) + (v - I32Max - 1)
    IN  IF sum < 0 THEN 0 ELSE IF sum > 255 THEN 255 ELSE sum

\* Color::brighten.  An overflowing sum panics in a build with overflow
\* checks (checks = TRUE, the default of a debug build) and wraps in one
\* without (the default of a release build).
Color_brighten(self, amount, checks) ==
    LET Channel(v) == IF AddOverflows(v, amount)
                      THEN BrightenChannelWrapped(v, amount)
                      ELSE BrightenChannel(v, amount)
    IN  [panic |-> checks /\ \E v \in {self.r, self.g, self.b} : AddOverflows(v, amount),
         color |-> [r |-> Channel(self.r), g |-> Channel(self.g),
                    b |-> Channel(self.b), a |-> self.a]]

(***************************************************************************)
(* src/pixel_buffer.rs: PixelBuffer<Color> and PixelBuffer<Color3>, a      *)
(* record of the fields width, height, buffer and index; `kind` is the     *)
(* type parameter.                                                         *)
(***************************************************************************)
\* PixelBuffer<Color>::new, for width > 0 and height > 0
PixelBufferColor_new(width, height) ==
    [kind |-> "Color", width |-> width, height |-> height,
     buffer |-> [i \in 0 .. width * height * 4 - 1 |->
                   IF i % 4 = 3 THEN 255 ELSE 0],
     index |-> 0]

\* PixelBuffer<Color3>::new, for width > 0 and height > 0
PixelBufferColor3_new(width, height) ==
    [kind |-> "Color3", width |-> width, height |-> height,
     buffer |-> [i \in 0 .. width * height * 3 - 1 |-> 0],
     index |-> 0]

\* The assert! of new and the first assert! of from_buffer
DimensionsAsserted(width, height) == width > 0 /\ height > 0

\* from_buffer's asserts without the one on the length.
FromBufferAsserts_NoLength(buffer, height, width, ch) ==
    IF ~DimensionsAsserted(width, height)
    THEN "Width and height must be greater than 0"
    ELSE "ok"

\* The asserts of from_buffer for a buffer of ch channels: the message of the
\* one that fails, or "ok".
FromBufferAsserts(buffer, height, width, ch) ==
    IF ~DimensionsAsserted(width, height)
    THEN "Width and height must be greater than 0"
    ELSE IF Cardinality(DOMAIN buffer) # width * height * ch
    THEN IF ch = 4 THEN "Buffer length must be equal to width * height * 4"
         ELSE "Buffer length must be equal to width * height * 3"
    ELSE "ok"

\* PixelBuffer<Color>::from_buffer(buffer, height, width), its asserts
\* passed.  The struct literal of the source names no `index`; the model
\* gives it the 0 that new gives.
PixelBufferColor_from_buffer(buffer, height, width) ==
    [kind |-> "Color", width |-> width, height |-> height, buffer |-> buffer,
     index |-> 0]

\* PixelBuffer<Color3>::from_buffer(buffer, height, width), its asserts passed
PixelBufferColor3_from_buffer(buffer, height, width) ==
    [kind |-> "Color3", width |-> width, height |-> height, buffer |-> buffer,
     index |-> 0]

\* Iterator for PixelBuffer<Color>: next.  `some` tells Some from None.
PixelBufferColor_next(self) ==
    IF self.index < self.width * self.height
    THEN [some |-> TRUE,
          color |-> [r |-> self.buffer[self.index],
                     g |-> self.buffer[self.index + 1],
                     b |-> self.buffer[self.index + 2],
                     a |-> self.buffer[self.index + 3]],
          self |-> [self EXCEPT !.index = self.index + 4]]
    ELSE [some |-> FALSE, color |-> [r |-> 0, g |-> 0, b |-> 0, a |-> 0],
          self |-> self]

\* Iterator for PixelBuffer<Color3>: next.
PixelBufferColor3_next(self) ==
    IF self.index < self.width * self.height
    THEN [some |-> TRUE,
          color |-> [r |-> self.buffer[self.index],
                     g |-> self.buffer[self.index + 1],
                     b |-> self.buffer[self.index + 2]],
          self |-> [self EXCEPT !.index = self.index + 3]]
    ELSE [some |-> FALSE, color |-> [r |-> 0, g |-> 0, b |-> 0],
          self |-> self]

\* PixelBuffer::clear_iter
PixelBuffer_clear_iter(self) == [self EXCEPT !.index = 0]

\* Whether the slice self.buffer[start..end] is in range; taking a slice
\* out of range panics.
SliceInRange(self, start, end) == end <= Cardinality(DOMAIN self.buffer)

\* Index<usize> for PixelBuffer<Color>: the Color at self.buffer[start..end]
PixelBufferColor_index(self, index) ==
    LET start == index * 4
    IN  [r |-> self.buffer[start], g |-> self.buffer[start + 1],
         b |-> self.buffer[start + 2], a |-> self.buffer[start + 3]]

\* IndexMut<usize> for PixelBuffer<Color>, and the store `self[index] = value`
PixelBufferColor_index_mut(self, index, value) ==
    LET start == index * 4
    IN  [self EXCEPT !.buffer =
            [k \in DOMAIN self.buffer |->
                IF k = start THEN value.r
                ELSE IF k = start + 1 THEN value.g
                ELSE IF k = start + 2 THEN value.b
                ELSE IF k = start + 3 THEN value.a
                ELSE self.buffer[k]]]

\* Index<usize> for PixelBuffer<Color3>: the Color3 at self.buffer[start..end]
PixelBufferColor3_index(self, index) ==
    LET start == index * 3
    IN  [r |-> self.buffer[start], g |-> self.buffer[start + 1],
         b |-> self.buffer[start + 2]]

\* The first byte of the slice IndexMut<usize> for PixelBuffer<Color3> takes.
PixelBufferColor3_index_mut_start(index) == index * 4

\* IndexMut<usize> for PixelBuffer<Color3>, and the store `self[index] = value`
PixelBufferColor3_index_mut(self, index, value) ==
    LET start == PixelBufferColor3_index_mut_start(index)
    IN  [self EXCEPT !.buffer =
            [k \in DOMAIN self.buffer |->
                IF k = start THEN value.r
                ELSE IF k = start + 1 THEN value.g
                ELSE IF k = start + 2 THEN value.b
                ELSE self.buffer[k]]]

RECURSIVE Repeated(_, _)
\* for _ in 0..n: the pushes of seq, n times over
Repeated(seq, n) == IF n = 0 THEN <<>> ELSE seq \o Repeated(seq, n - 1)

RECURSIVE UpscaleRow(_, _, _, _, _)
\* upscale, `for j in j..self.width`: factor times the ch bytes of pixel (i, j)
UpscaleRow(self, ch, i, j, factor) ==
    IF j >= self.width THEN <<>>
    ELSE LET start == (i * self.width + j) * ch
         IN  Repeated([c \in 1 .. ch |-> self.buffer[start + c - 1]], factor)
                 \o UpscaleRow(self, ch, i, j + 1, factor)

RECURSIVE UpscaleRows(_, _, _, _)
\* UpscaleRows pushing each row once.
UpscaleRows_Once(self, ch, i, factor) ==
    IF i >= self.height THEN <<>>
    ELSE UpscaleRow(self, ch, i, 0, factor)
             \o UpscaleRows(self, ch, i + 1, factor)

\* upscale, `for i in i..self.height`: factor times the row i
UpscaleRows(self, ch, i, factor) ==
    IF i >= self.height THEN <<>>
    ELSE Repeated(UpscaleRow(self, ch, i, 0, factor), factor)
             \o UpscaleRows(self, ch, i + 1, factor)

\* upscale without `self.height *= factor`.
PixelBuffer_upscale_KeepHeight(self, ch, factor) ==
    LET new_buffer == UpscaleRows(self, ch, 0, factor)
    IN  [self EXCEPT !.buffer = [k \in 0 .. Len(new_buffer) - 1 |-> new_buffer[k + 1]],
                     !.width = self.width * factor]

\* upscale for a buffer of ch channels
PixelBuffer_upscale(self, ch, factor) ==
    LET new_buffer == UpscaleRows(self, ch, 0, factor)
    IN  [self EXCEPT !.buffer = [k \in 0 .. Len(new_buffer) - 1 |-> new_buffer[k + 1]],
                     !.width = self.width * factor,
                     !.height = self.height * factor]

\* PixelBuffer<Color>::upscale
PixelBufferColor_upscale(self, factor) == PixelBuffer_upscale(self, 4, factor)

\* PixelBuffer<Color3>::upscale
PixelBufferColor3_upscale(self, factor) == PixelBuffer_upscale(self, 3, factor)

RECURSIVE MergeLoop(_, _, _, _)
\* The last n iterations of the loops of merge over y and x.  No iteration
\* changes i.
MergeLoop(self, other, i, n) ==
    IF n = 0 THEN [panic |-> FALSE, self |-> self]
    ELSE IF \/ ~SliceInRange(other, i * 4, i * 4 + 4)
            \/ ~SliceInRange(self, i * 3, i * 3 + 3)
            \/ ~SliceInRange(self, PixelBufferColor3_index_mut_start(i),
                                   PixelBufferColor3_index_mut_start(i) + 3)
    THEN [panic |-> TRUE, self |-> self]
    ELSE LET other_pixel == PixelBufferColor_index(other, i)
             factor == Rational(other_pixel.a, 255)
             other_rgb == [r |-> other_pixel.r, g |-> other_pixel.g,
                           b |-> other_pixel.b]
             self_pixel == PixelBufferColor3_index(self, i)
         IN  MergeLoop(PixelBufferColor3_index_mut(
                           self, i, Color3_blend(other_rgb, self_pixel, factor)),
                       other, i, n - 1)

\* PixelBuffer<Color3>::merge
PixelBufferColor3_merge(self, other) ==
    IF self.width # other.width \/ self.height # other.height
    THEN [panic |-> TRUE, self |-> self]
    ELSE MergeLoop(self, other, 0, self.height * self.width)

(***************************************************************************)
(* src/lib.rs: Map                                                         *)
(***************************************************************************)
\* The match of get_tex_cord: entry bitmap + 1 is the (x, y) of that arm.
TexTable ==
<<
    <<56, 0>>, <<56, 0>>, <<48, 0>>, <<48, 0>>, <<56, 0>>, <<56, 0>>, <<48, 0>>, <<48, 0>>,
    <<0, 24>>, <<0, 24>>, <<56, 16>>, <<0, 0>>, <<0, 24>>, <<0, 24>>, <<56, 16>>, <<0, 0>>,
    <<16, 24>>, <<16, 24>>, <<56, 8>>, <<56, 8>>, <<16, 24>>, <<16, 24>>, <<16, 0>>, <<16, 0>>,
    <<8, 24>>, <<8, 24>>, <<8, 40>>, <<16, 40>>, <<8, 24>>, <<8, 24>>, <<0, 40>>, <<8, 0>>,
    <<56, 0>>, <<56, 0>>, <<48, 0>>, <<48, 0>>, <<56, 0>>, <<56, 0>>, <<48, 0>>, <<48, 0>>,
    <<0, 24>>, <<0, 24>>, <<56, 16>>, <<0, 0>>, <<0, 24>>, <<0, 24>>, <<56, 16>>, <<0, 0>>,
    <<16, 24>>, <<16, 24>>, <<56, 8>>, <<56, 8>>, <<16, 24>>, <<16, 24>>, <<16, 0>>, <<16, 0>>,
    <<8, 24>>, <<8, 24>>, <<8, 40>>, <<16, 40>>, <<8, 24>>, <<8, 24>>, <<0, 40>>, <<8, 0>>,
    <<48, 16>>, <<48, 16>>, <<48, 8>>, <<48, 8>>, <<48, 16>>, <<48, 16>>, <<48, 8>>, <<48, 8>>,
    <<56, 24>>, <<56, 24>>, <<48, 32>>, <<48, 40>>, <<56, 24>>, <<56, 24>>, <<48, 32>>, <<48, 40>>,
    <<56, 32>>, <<56, 32>>, <<40, 32>>, <<40, 32>>, <<56, 32>>, <<56, 32>>, <<40, 40>>, <<40, 40>>,
    <<8, 32>>, <<8, 32>>, <<32, 8>>, <<32, 32>>, <<8, 32>>, <<8, 32>>, <<24, 32>>, <<32, 16>>,
    <<48, 16>>, <<48, 16>>, <<48, 8>>, <<48, 8>>, <<48, 16>>, <<48, 16>>, <<48, 8>>, <<48, 8>>,
    <<0, 16>>, <<0, 16>>, <<48, 24>>, <<0, 8>>, <<0, 16>>, <<0, 16>>, <<48, 24>>, <<0, 8>>,
    <<56, 32>>, <<56, 32>>, <<40, 32>>, <<40, 32>>, <<56, 32>>, <<56, 32>>, <<40, 40>>, <<40, 40>>,
    <<16, 32>>, <<16, 32>>, <<32, 24>>, <<40, 8>>, <<16, 32>>, <<16, 32>>, <<24, 40>>, <<40, 16>>,
    <<56, 0>>, <<56, 0>>, <<48, 0>>, <<48, 0>>, <<8, 8>>, <<8, 8>>, <<48, 0>>, <<48, 0>>,
    <<0, 24>>, <<0, 24>>, <<56, 16>>, <<0, 0>>, <<0, 24>>, <<0, 24>>, <<56, 16>>, <<0, 0>>,
    <<16, 24>>, <<16, 24>>, <<56, 8>>, <<56, 8>>, <<16, 24>>, <<16, 24>>, <<16, 0>>, <<16, 0>>,
    <<8, 24>>, <<8, 24>>, <<8, 40>>, <<16, 40>>, <<8, 24>>, <<8, 24>>, <<0, 40>>, <<8, 0>>,
    <<8, 8>>, <<8, 8>>, <<48, 0>>, <<48, 0>>, <<8, 8>>, <<8, 8>>, <<48, 0>>, <<48, 0>>,
    <<0, 24>>, <<0, 24>>, <<56, 16>>, <<0, 0>>, <<0, 24>>, <<0, 24>>, <<56, 16>>, <<0, 0>>,
    <<16, 24>>, <<16, 24>>, <<56, 8>>, <<56, 8>>, <<16, 24>>, <<16, 24>>, <<16, 0>>, <<16, 0>>,
    <<8, 24>>, <<8, 24>>, <<8, 40>>, <<16, 40>>, <<8, 24>>, <<8, 24>>, <<0, 40>>, <<8, 0>>,
    <<48, 16>>, <<48, 16>>, <<48, 8>>, <<48, 8>>, <<48, 16>>, <<48, 16>>, <<48, 8>>, <<48, 8>>,
    <<56, 24>>, <<56, 24>>, <<48, 32>>, <<48, 40>>, <<56, 24>>, <<56, 24>>, <<48, 32>>, <<48, 40>>,
    <<16, 16>>, <<16, 16>>, <<40, 24>>, <<40, 24>>, <<16, 16>>, <<16, 16>>, <<16, 8>>, <<16, 8>>,
    <<0, 32>>, <<0, 32>>, <<24, 24>>, <<32, 40>>, <<0, 32>>, <<0, 32>>, <<24, 8>>, <<24, 16>>,
    <<48, 16>>, <<48, 16>>, <<48, 8>>, <<48, 8>>, <<48, 16>>, <<48, 16>>, <<48, 8>>, <<48, 8>>,
    <<0, 16>>, <<0, 16>>, <<48, 24>>, <<0, 8>>, <<0, 16>>, <<0, 16>>, <<48, 24>>, <<0, 8>>,
    <<16, 16>>, <<16, 16>>, <<40, 24>>, <<40, 24>>, <<16, 16>>, <<16, 16>>, <<16, 8>>, <<16, 8>>,
    <<8, 16>>, <<8, 16>>, <<32, 0>>, <<40, 0>>, <<8, 16>>, <<8, 16>>, <<24, 0>>, <<8, 8>>
>>

\* An 8-bit value's bit of weight w (w a power of two).
BitSet(v, w) == (v \div w) % 2 = 1

\* Point { x, y } with x = x/q, y = y/q.
Point(x, y, q) == [x |-> x, y |-> y, q |-> q]

\* The texture bytes read from the PNG: len bytes, byte i given by the
\* variant's pattern (texel p = i / 4, channel i % 4).
TextureByte(texture, i) ==
    LET p == i \div 4
        c == i % 4
        tx == p % AtlasWidth
        ty == p \div AtlasWidth
    IN  IF c = 0 THEN tx * 4
        ELSE IF c = 1 THEN ty * 5
        ELSE IF c = 2 THEN (tx + 3 * ty + 64 * texture.variant) % 256
        ELSE IF texture.variant = 0 THEN 255
        ELSE IF (tx + ty) % 3 = 0 THEN 255
        ELSE IF (tx + ty) % 3 = 1 THEN 128
        ELSE 0

\* Number of pixels per row and per column of pixel_buffer.
PixelWidth(self) == self.width * TileSize * self.sim_scale
PixelHeight(self) == self.height * TileSize * self.sim_scale

\* Point { x: x as f64 / 8. / sim_scale as f64, y: ... }
ScaledPoint(self, x, y) == Point(x, y, TileSize * self.sim_scale)

\* Map::is_within_square
is_within_square(self, point) ==
    LET grid_x == AsUsize(point.x, point.q)
        grid_y == AsUsize(point.y, point.q)
    IN  IF grid_x < self.width /\ grid_y < self.height
        THEN self.squares[grid_y][grid_x]
        ELSE FALSE

\* RootAxis without the `% 8.`.
RootAxis_NoModulo(num, q) == IF num < 0 THEN 0 ELSE (num * 8) \div q

\* One axis of Map::get_root_square followed by `as u32`:
\* ((v * 8.) % 8.).floor() as u32.  `%` on f64 keeps the sign of v, and the
\* cast of a negative number gives 0.
RootAxis(num, q) == IF num < 0 THEN 0 ELSE ((num * 8) \div q) % 8

\* Map::get_root_square (as cast to u32 by get_tex_cord)
get_root_square(self, point) ==
    [x |-> RootAxis(point.x, point.q), y |-> RootAxis(point.y, point.q)]

\* distance.ceil() of the distance sqrt(n)/q: the least k with k*q >= sqrt(n).
CeilDistance(n, q) == (CeilSqrt(n) + q - 1) \div q

\* Whether sample i of point_has_los(a, b) lies in an occupied square: the
\* point (a.x + dx * i, a.y + dy * i) with dx = (b.x - a.x) / steps.
LosSampleBlocked(self, a, b, steps, i) ==
    LET q == a.q * b.q
        ax == a.x * b.q
        ay == a.y * b.q
        bx == b.x * a.q
        by == b.y * a.q
    IN  is_within_square(self, Point(ax * steps + (bx - ax) * i,
                                     ay * steps + (by - ay) * i,
                                     q * steps))

\* LosSteps with distance.floor() for distance.ceil().
LosSteps_Floor(a, b) ==
    LET q == a.q * b.q
        dx == b.x * a.q - a.x * b.q
        dy == b.y * a.q - a.y * b.q
    IN  (FloorSqrt(dx * dx + dy * dy) \div q) * LosDensity

\* LosSteps never less than one grid unit of samples.
LosSteps_AtLeastOne(a, b) ==
    LET q == a.q * b.q
        dx == b.x * a.q - a.x * b.q
        dy == b.y * a.q - a.y * b.q
        units == CeilDistance(dx * dx + dy * dy, q)
    IN  (IF units = 0 THEN 1 ELSE units) * LosDensity

\* let steps = distance.ceil() as usize * 20
LosSteps(a, b) ==
    LET q == a.q * b.q
        dx == b.x * a.q - a.x * b.q
        dy == b.y * a.q - a.y * b.q
    IN  CeilDistance(dx * dx + dy * dy, q) * LosDensity

\* for i in i .. steps: return false at the first sample in an occupied
\* square, true when the loop ends.
LosLoop(self, a, b, steps, i) ==
    \A j \in i .. steps - 1 : ~LosSampleBlocked(self, a, b, steps, j)

\* The number of samples point_has_los tests from sample i on: the
\* iterations of its loop up to and including the one that returns.
LosTested(self, a, b, steps, i) ==
    LET blocked == { j \in i .. steps - 1 : LosSampleBlocked(self, a, b, steps, j) }
    IN  IF blocked = {} THEN (IF steps > i THEN steps - i ELSE 0)
        ELSE (CHOOSE j \in blocked : \A k \in blocked : j <= k) - i + 1

\* point_has_los with `for i in 1..steps`: the start point is not tested.
point_has_los_SkipsStart(self, a, b) == LosLoop(self, a, b, LosSteps(a, b), 1)

\* Map::point_has_los
point_has_los(self, a, b) == LosLoop(self, a, b, LosSteps(a, b), 0)

\* What a function that panicked returns in place of a number.
Panic == -1

\* The eight tests of get_surrounding_square_bitmap, in the order of the
\* code: the guards of each (grid_x > 0, grid_y > 0, grid_x < width - 1,
\* grid_y < height - 1), the square it reads and the bit it sets.
NeighbourTests ==
    << [left |-> TRUE,  up |-> TRUE,  right |-> FALSE, down |-> FALSE, dy |-> -1, dx |-> -1, bit |-> 128],
       [left |-> FALSE, up |-> TRUE,  right |-> FALSE, down |-> FALSE, dy |-> -1, dx |-> 0,  bit |-> 64],
       [left |-> FALSE, up |-> TRUE,  right |-> TRUE,  down |-> FALSE, dy |-> -1, dx |-> 1,  bit |-> 32],
       [left |-> TRUE,  up |-> FALSE, right |-> FALSE, down |-> FALSE, dy |-> 0,  dx |-> -1, bit |-> 16],
       [left |-> FALSE, up |-> FALSE, right |-> TRUE,  down |-> FALSE, dy |-> 0,  dx |-> 1,  bit |-> 8],
       [left |-> TRUE,  up |-> FALSE, right |-> FALSE, down |-> TRUE,  dy |-> 1,  dx |-> -1, bit |-> 4],
       [left |-> FALSE, up |-> FALSE, right |-> FALSE, down |-> TRUE,  dy |-> 1,  dx |-> 0,  bit |-> 2],
       [left |-> FALSE, up |-> FALSE, right |-> TRUE,  down |-> TRUE,  dy |-> 1,  dx |-> 1,  bit |-> 1] >>

\* NeighbourGuard with `grid_x < width` for `grid_x < width - 1`.
NeighbourGuard_OffByOne(self, t, grid_x, grid_y) ==
    /\ t.left => grid_x > 0
    /\ t.up => grid_y > 0
    /\ t.right => grid_x < self.width
    /\ t.down => grid_y < self.height - 1

\* The guard of test t at (grid_x, grid_y): the conjuncts before the read.
NeighbourGuard(self, t, grid_x, grid_y) ==
    /\ t.left => grid_x > 0
    /\ t.up => grid_y > 0
    /\ t.right => grid_x < self.width - 1
    /\ t.down => grid_y < self.height - 1

\* The squares that get_surrounding_square_bitmap indexes, as <<row, column>>.
BitmapReads(self, point) ==
    LET grid_x == AsUsize(point.x, point.q)
        grid_y == AsUsize(point.y, point.q)
    IN  { <<grid_y + NeighbourTests[k].dy, grid_x + NeighbourTests[k].dx>> :
            k \in { j \in 1 .. 8 : NeighbourGuard(self, NeighbourTests[j], grid_x, grid_y) } }

\* self.squares[row][column]; an index outside the Vec panics.
InSquares(self, cell) ==
    /\ cell[1] >= 0 /\ cell[1] < self.height
    /\ cell[2] >= 0 /\ cell[2] < self.width

RECURSIVE BitmapFrom(_, _, _, _)
\* bitmap |= bit for tests k .. 8, in order.
BitmapFrom(self, grid_x, grid_y, k) ==
    IF k > 8 THEN 0
    ELSE LET t == NeighbourTests[k]
             set == /\ NeighbourGuard(self, t, grid_x, grid_y)
                    /\ self.squares[grid_y + t.dy][grid_x + t.dx]
         IN  (IF set THEN t.bit ELSE 0) + BitmapFrom(self, grid_x, grid_y, k + 1)

\* Map::get_surrounding_square_bitmap; Panic when an index is out of range.
get_surrounding_square_bitmap(self, point) ==
    IF \A cell \in BitmapReads(self, point) : InSquares(self, cell)
    THEN BitmapFrom(self, AsUsize(point.x, point.q), AsUsize(point.y, point.q), 1)
    ELSE Panic

\* get_tex_cord returning (y, x) for (x, y).
get_tex_cord_Swapped(self, point, bitmap) ==
    LET root_square == get_root_square(self, point)
        x == TexTable[bitmap + 1][1]
        y == TexTable[bitmap + 1][2]
    IN  <<y + root_square.y, x + root_square.x>>

\* Map::get_tex_cord
get_tex_cord(self, point, bitmap) ==
    LET root_square == get_root_square(self, point)
        x == TexTable[bitmap + 1][1]
        y == TexTable[bitmap + 1][2]
    IN  <<x + root_square.x, y + root_square.y>>

\* The four bytes color_walls writes for pixel (x, y): zeros outside an
\* occupied square, else the texel at get_tex_cord; the empty tuple when an
\* index is out of range (a panic).
WallPixel(self, x, y) ==
    LET scaled_point == ScaledPoint(self, x, y)
    IN  IF ~is_within_square(self, scaled_point) THEN <<0, 0, 0, 0>>
        ELSE LET bitmask == get_surrounding_square_bitmap(self, scaled_point)
             IN  IF bitmask = Panic THEN <<>>
                 ELSE LET tex == get_tex_cord(self, scaled_point, bitmask)
                          at == (tex[2] * AtlasWidth + tex[1]) * 4
                      IN  IF at + 3 >= self.texture.len THEN <<>>
                          ELSE << TextureByte(self.texture, at),
                                  TextureByte(self.texture, at + 1),
                                  TextureByte(self.texture, at + 2),
                                  TextureByte(self.texture, at + 3) >>

\* Map::color_walls: the RGBA layer, or a panic.
color_walls(self) ==
    LET w == PixelWidth(self)
        n == w * PixelHeight(self)
        px == Tabulated([p \in 0 .. n - 1 |-> WallPixel(self, p % w, p \div w)])
    IN  IF \E p \in 0 .. n - 1 : px[p] = <<>>
        THEN [panic |-> TRUE, layer |-> <<>>]
        ELSE [panic |-> FALSE,
              layer |-> [i \in 0 .. 4 * n - 1 |-> px[i \div 4][(i % 4) + 1]]]

\* Map::merge_pixel_layer: the new pixel_buffer.
merge_pixel_layer(self, other) ==
    LET new_color(p) ==
            LET self_color == [r |-> self.pixel_buffer[3 * p],
                               g |-> self.pixel_buffer[3 * p + 1],
                               b |-> self.pixel_buffer[3 * p + 2],
                               a |-> 255]
                other_color == [r |-> other[4 * p],
                                g |-> other[4 * p + 1],
                                b |-> other[4 * p + 2],
                                a |-> 255]
                factor == Rational(other[4 * p + 3], 255)
            IN  Color_blend(other_color, self_color, factor)
        n == PixelWidth(self) * PixelHeight(self)
        px == Tabulated([p \in 0 .. n - 1 |-> new_color(p)])
    IN  [i \in 0 .. 3 * n - 1 |->
            IF i % 3 = 0 THEN px[i \div 3].r
            ELSE IF i % 3 = 1 THEN px[i \div 3].g
            ELSE px[i \div 3].b]

\* Map::save_upscaled, for scale > 0: the size and the bytes handed to the
\* PNG encoder.
save_upscaled(self, scale) ==
    LET start_height == self.height * 8 * self.sim_scale
        start_width == self.width * 8 * self.sim_scale
        end_height == start_height * scale
        end_width == start_width * scale
    IN  [width |-> end_width, height |-> end_height,
         buffer |-> [d \in 0 .. end_height * end_width * 3 - 1 |->
                       LET y == (d \div 3) \div end_width
                           x == (d \div 3) % end_width
                           source_x == x \div scale
                           source_y == y \div scale
                           source_index == (source_y * start_width + source_x) * 3
                       IN  self.pixel_buffer[source_index + (d % 3)]]]

\* The squared distance, in units of 1/(q*q), between a light and a point.
DistanceSquared(position, scaled_point) ==
    LET dx == position.x * scaled_point.q - scaled_point.x * position.q
        dy == position.y * scaled_point.q - scaled_point.y * position.q
    IN  dx * dx + dy * dy

\* distance < light.intensity, the intensity being num/den.
WithinIntensity(light, scaled_point) ==
    LET q == light.position.q * scaled_point.q
        n == DistanceSquared(light.position, scaled_point)
    IN  n * light.intensity.den * light.intensity.den
            < (q * light.intensity.num) * (q * light.intensity.num)

\* LightFactor without the `1.0 -`: distance / light.intensity.
LightFactor_Inverted(light, scaled_point) ==
    LET q == light.position.q * scaled_point.q
    IN  [a |-> 0,
         b |-> 0 - light.intensity.den,
         n |-> DistanceSquared(light.position, scaled_point),
         d |-> q * light.intensity.num]

\* 1.0 - distance / light.intensity
LightFactor(light, scaled_point) ==
    LET q == light.position.q * scaled_point.q
    IN  [a |-> q * light.intensity.num,
         b |-> light.intensity.den,
         n |-> DistanceSquared(light.position, scaled_point),
         d |-> q * light.intensity.num]

RECURSIVE LightLoop(_, _, _, _)
\* for light in &self.lights, from light k on.
LightLoop(self, scaled_point, pixel_color, k) ==
    IF k > Len(self.lights) THEN pixel_color
    ELSE LET light == self.lights[k]
         IN  IF /\ WithinIntensity(light, scaled_point)
                /\ point_has_los(self, light.position, scaled_point)
             THEN LightLoop(self, scaled_point,
                            Color_blend(light.color, pixel_color,
                                        LightFactor(light, scaled_point)),
                            k + 1)
             ELSE LightLoop(self, scaled_point, pixel_color, k + 1)

\* RenderPixel lighting the pixels of occupied squares too.
RenderPixel_LightAll(self, x, y) ==
    LET scaled_point == ScaledPoint(self, x, y)
        i == 3 * (y * PixelWidth(self) + x)
        pixel_color == [r |-> self.pixel_buffer[i],
                        g |-> self.pixel_buffer[i + 1],
                        b |-> self.pixel_buffer[i + 2],
                        a |-> 255]
    IN  LightLoop(self, scaled_point, pixel_color, 1)

\* RenderPixel starting from black instead of the pixel's colour.
RenderPixel_FromBlack(self, x, y) ==
    LET scaled_point == ScaledPoint(self, x, y)
        i == 3 * (y * PixelWidth(self) + x)
        pixel_color == [r |-> self.pixel_buffer[i],
                        g |-> self.pixel_buffer[i + 1],
                        b |-> self.pixel_buffer[i + 2],
                        a |-> 255]
    IN  IF ~is_within_square(self, scaled_point)
        THEN LightLoop(self, scaled_point, [r |-> 0, g |-> 0, b |-> 0, a |-> 255], 1)
        ELSE pixel_color

\* RenderPixel starting from the colour of the pixel before it in the buffer.
RenderPixel_ReadsPrevious(self, x, y) ==
    LET scaled_point == ScaledPoint(self, x, y)
        at == 3 * (y * PixelWidth(self) + x)
        i == IF at = 0 THEN at ELSE at - 3
        pixel_color == [r |-> self.pixel_buffer[i],
                        g |-> self.pixel_buffer[i + 1],
                        b |-> self.pixel_buffer[i + 2],
                        a |-> 255]
    IN  IF ~is_within_square(self, scaled_point)
        THEN LightLoop(self, scaled_point, pixel_color, 1)
        ELSE pixel_color

\* The body of render's pixel loop for pixel (x, y): the colour written back.
RenderPixel(self, x, y) ==
    LET scaled_point == ScaledPoint(self, x, y)
        i == 3 * (y * PixelWidth(self) + x)
        pixel_color == [r |-> self.pixel_buffer[i],
                        g |-> self.pixel_buffer[i + 1],
                        b |-> self.pixel_buffer[i + 2],
                        a |-> 255]
    IN  IF ~is_within_square(self, scaled_point)
        THEN LightLoop(self, scaled_point, pixel_color, 1)
        ELSE pixel_color

\* The pixel loop of Map::render: the new pixel_buffer.
RenderLoop(self) ==
    LET w == PixelWidth(self)
        n == w * PixelHeight(self)
        px == Tabulated([p \in 0 .. n - 1 |-> RenderPixel(self, p % w, p \div w)])
    IN  [i \in 0 .. 3 * n - 1 |->
            IF i % 3 = 0 THEN px[i \div 3].r
            ELSE IF i % 3 = 1 THEN px[i \div 3].g
            ELSE px[i \div 3].b]

\* Map::render on an atlas that color_walls can index: the new pixel_buffer.
render(self) ==
    LET layer == Tabulated(color_walls(self).layer)
        merged == Tabulated(merge_pixel_layer(self, layer))
    IN  IF Len(self.lights) = 0 THEN merged
        ELSE RenderLoop([self EXCEPT !.pixel_buffer = merged])

\* The worker that pixel number p (row-major) is dealt to.
WorkerOf(self, p) == ((p % PixelWidth(self)) + (p \div PixelWidth(self))) % MaxWorkers

\* The pixel_buffer after worker w has run the code of render on the Map as
\* it is and written the bytes of its own pixels.
WorkerWrites(self, w) ==
    LET rendered == Tabulated(render(self))
    IN  [i \in DOMAIN self.pixel_buffer |->
            IF WorkerOf(self, i \div 3) = w THEN rendered[i]
            ELSE self.pixel_buffer[i]]

(***************************************************************************)
(* State.  A function that only reads the Map is called once in a          *)
(* behaviour, from any Map the specification builds, and `call` keeps the  *)
(* arguments and the result.                                               *)
(***************************************************************************)
VARIABLES
    height,        \* Map.height
    width,         \* Map.width
    sim_scale,     \* Map.sim_scale
    lights,        \* Map.lights
    squares,       \* Map.squares, squares[row][column]
    pixel_buffer,  \* Map.pixel_buffer
    texture,       \* Map.texture
    pc,            \* where Map::render stands: "idle", "walls", "merged", "panicked"
    layer,         \* render's local `layer`
    renders,       \* completed calls of render
    call,          \* the last call of a function and what it returned
    pb             \* a PixelBuffer<Color> or PixelBuffer<Color3>

vars == <<height, width, sim_scale, lights, squares, pixel_buffer, texture,
          pc, layer, renders, call, pb>>

\* The Map the variables hold.
Self ==
    [height |-> height, width |-> width, sim_scale |-> sim_scale,
     lights |-> lights, squares |-> squares, pixel_buffer |-> pixel_buffer,
     texture |-> texture]

NoCall == [fn |-> "none"]

\* No PixelBuffer has been made.
NoBuffer == [kind |-> "none"]

\* Textures the PNG decoder may hand to Map::new: a 64 x 48 RGBA atlas with
\* mixed alpha, and an 8 x 8 RGBA image (Map::new does not look at the size).
Textures ==
    { [len |-> 64 * 48 * 4, variant |-> 1],
      [len |-> 8 * 8 * 4, variant |-> 0] }

\* Lights handed to add_light (angle and fov are never read).
LightChoices ==
    { [position |-> Point(1, 1, 2),
       color |-> [r |-> 255, g |-> 255, b |-> 255, a |-> 255],
       intensity |-> [num |-> 3, den |-> 2]],
      [position |-> Point(5, 1, 2),
       color |-> [r |-> 200, g |-> 100, b |-> 0, a |-> 255],
       intensity |-> [num |-> 2, den |-> 1]] }

\* The shapes (height, width, sim_scale) of the Maps of the render
\* specification.
MapShapes ==
    { s \in (1 .. MaxExtent) \X (1 .. MaxExtent) \X (1 .. MaxExtent) :
        s[1] * s[2] * s[3] <= MaxExtent }

\* The occupancy grids of a height x width Map.
Grids(h, w) == [0 .. h - 1 -> [0 .. w - 1 -> BOOLEAN]]

\* Map::new(height, width, sim_scale, texture_path, ..)
MapNew(h, w, s, t) ==
    /\ height = h
    /\ width = w
    /\ sim_scale = s
    /\ lights = <<>>
    /\ squares = [y \in 0 .. h - 1 |-> [x \in 0 .. w - 1 |-> FALSE]]
    /\ pixel_buffer = [i \in 0 .. (h * 8 * s) * (w * 8 * s) * 3 - 1 |-> 0]
    /\ texture = t

Init ==
    /\ \E s \in MapShapes, t \in Textures : MapNew(s[1], s[2], s[3], t)
    /\ pc = "idle"
    /\ layer = <<>>
    /\ renders = 0
    /\ call = NoCall
    /\ pb = NoBuffer

\* Map::add_light
AddLight(light) ==
    /\ pc = "idle" /\ renders = 0
    /\ Len(lights) < MaxLights
    /\ lights' = Append(lights, light)
    /\ UNCHANGED <<pb, height, width, sim_scale, squares, pixel_buffer, texture,
                   pc, layer, renders, call>>

\* Map::squares_from_file, the file holding a '#' where `file` is TRUE.
\* The grid is built before the Map is rendered or queried.
SquaresFromFile(file) ==
    /\ pc = "idle" /\ renders = 0 /\ call = NoCall
    /\ squares' = [y \in 0 .. height - 1 |->
                     [x \in 0 .. width - 1 |-> squares[y][x] \/ file[y][x]]]
    /\ UNCHANGED <<pb, height, width, sim_scale, lights, pixel_buffer, texture,
                   pc, layer, renders, call>>

\* Map::render, line 175: let layer = self.color_walls();
RenderColorWalls ==
    /\ pc = "idle" /\ renders < MaxRenders
    /\ LET l == color_walls(Self)
       IN  IF l.panic
           THEN pc' = "panicked" /\ layer' = <<>>
           ELSE pc' = "walls" /\ layer' = l.layer
    /\ UNCHANGED <<pb, height, width, sim_scale, lights, squares, pixel_buffer,
                   texture, renders, call>>

\* Map::render, line 176: self.merge_pixel_layer(layer);
RenderMerge ==
    /\ pc = "walls"
    /\ pixel_buffer' = merge_pixel_layer(Self, layer)
    /\ layer' = <<>>
    /\ pc' = "merged"
    /\ UNCHANGED <<pb, height, width, sim_scale, lights, squares, texture,
                   renders, call>>

\* Map::render, lines 178-180: if self.lights.len() == 0 { return; }
RenderReturnEarly ==
    /\ pc = "merged"
    /\ Len(lights) = 0
    /\ pc' = "idle"
    /\ renders' = renders + 1
    /\ UNCHANGED <<pb, height, width, sim_scale, lights, squares, pixel_buffer,
                   texture, layer, call>>

\* Map::render, lines 182-216: the pixel loop.
RenderLights ==
    /\ pc = "merged"
    /\ Len(lights) # 0
    /\ pixel_buffer' = RenderLoop(Self)
    /\ pc' = "idle"
    /\ renders' = renders + 1
    /\ UNCHANGED <<pb, height, width, sim_scale, lights, squares, texture,
                   layer, call>>

Next ==
    \/ \E light \in LightChoices : AddLight(light)
    \/ /\ renders = 0
       /\ \E file \in Grids(height, width) : SquaresFromFile(file)
    \/ RenderColorWalls
    \/ RenderMerge
    \/ RenderReturnEarly
    \/ RenderLights

Spec == Init /\ [][Next]_vars

(***************************************************************************)
(* The scene of two tiles by two: a Map of 2 x 2 tiles at sim_scale 1 with *)
(* the atlas, any grid, at most one light, rendered once.                  *)
(***************************************************************************)
InitScene ==
    /\ MapNew(2, 2, 1, [len |-> 64 * 48 * 4, variant |-> 1])
    /\ pc = "idle"
    /\ layer = <<>>
    /\ renders = 0
    /\ call = NoCall
    /\ pb = NoBuffer

\* The lights of the scene: white at the centre of tile (1, 1) with intensity
\* 1.5, white at the centre of tile (0, 0), orange at the centre of the grid.
SceneLights ==
    { [position |-> Point(3, 3, 2),
       color |-> [r |-> 255, g |-> 255, b |-> 255, a |-> 255],
       intensity |-> [num |-> 3, den |-> 2]],
      [position |-> Point(1, 1, 2),
       color |-> [r |-> 255, g |-> 255, b |-> 255, a |-> 255],
       intensity |-> [num |-> 3, den |-> 2]],
      [position |-> Point(2, 2, 2),
       color |-> [r |-> 200, g |-> 100, b |-> 0, a |-> 255],
       intensity |-> [num |-> 1, den |-> 1]] }

NextScene ==
    \/ /\ Len(lights) = 0
       /\ \E light \in SceneLights : AddLight(light)
    \/ /\ renders = 0
       /\ \E file \in Grids(height, width) : SquaresFromFile(file)
    \/ /\ renders = 0
       /\ RenderColorWalls
    \/ RenderMerge
    \/ RenderReturnEarly
    \/ RenderLights

SpecScene == InitScene /\ [][NextScene]_vars

(***************************************************************************)
(* The render by workers: the pixels of a Map of two tiles are dealt to    *)
(* MaxWorkers workers; a worker runs the code of render on the buffer as   *)
(* it finds it and writes the bytes of its own pixels; the workers run in  *)
(* any order.  The Map has at most one light and may have been rendered    *)
(* once before.                                                            *)
(***************************************************************************)
InitWorkers ==
    /\ \E s \in {<<1, 2>>, <<2, 1>>} :
           MapNew(s[1], s[2], 1, [len |-> 64 * 48 * 4, variant |-> 1])
    /\ pc = "idle"
    /\ layer = <<>>
    /\ renders = 0
    /\ call = NoCall
    /\ pb = NoBuffer

\* render begins: the Map as it is found.
StartWorkers ==
    /\ pc = "idle" /\ call = NoCall
    /\ call' = [fn |-> "render by workers", start |-> Self, done |-> {}]
    /\ UNCHANGED <<pb, height, width, sim_scale, lights, squares, pixel_buffer,
                   texture, pc, layer, renders>>

\* Worker w renders its pixels.
WorkerStep(w) ==
    /\ call.fn = "render by workers"
    /\ w \notin call.done
    /\ pixel_buffer' = WorkerWrites(Self, w)
    /\ call' = [call EXCEPT !.done = call.done \cup {w}]
    /\ UNCHANGED <<pb, height, width, sim_scale, lights, squares, texture, pc,
                   layer, renders>>

NextWorkers ==
    \/ /\ call = NoCall /\ Len(lights) = 0
       /\ \E light \in LightChoices : AddLight(light)
    \/ /\ renders = 0
       /\ \E file \in Grids(height, width) : SquaresFromFile(file)
    \/ /\ renders = 0 /\ call = NoCall
       /\ RenderColorWalls
    \/ RenderMerge
    \/ RenderReturnEarly
    \/ RenderLights
    \/ StartWorkers
    \/ /\ call # NoCall
       /\ \E w \in 0 .. MaxWorkers - 1 : WorkerStep(w)

SpecWorkers == InitWorkers /\ [][NextWorkers]_vars

(***************************************************************************)
(* The autotile table: get_tex_cord called, as color_walls calls it, at    *)
(* the point of a pixel of the buffer, with any bitmap.                    *)
(***************************************************************************)
CallGetTexCord(x, y, bitmap) ==
    /\ call = NoCall
    /\ call' = [fn |-> "get_tex_cord", x |-> x, y |-> y, bitmap |-> bitmap,
                ret |-> get_tex_cord(Self, ScaledPoint(Self, x, y), bitmap)]
    /\ UNCHANGED <<pb, height, width, sim_scale, lights, squares, pixel_buffer,
                   texture, pc, layer, renders>>

NextTexCord ==
    /\ call = NoCall
    /\ \E x \in 0 .. PixelWidth(Self) - 1, y \in 0 .. PixelHeight(Self) - 1,
          bitmap \in 0 .. 255 :
           CallGetTexCord(x, y, bitmap)

SpecTexCord == Init /\ [][NextTexCord]_vars

(***************************************************************************)
(* The neighbour bitmap: get_surrounding_square_bitmap called at a point   *)
(* of a tile of the grid.                                                  *)
(***************************************************************************)
BitmapShapes ==
    { s \in (1 .. MaxSide) \X (1 .. MaxSide) : s[1] * s[2] <= MaxCells }

InitBitmap ==
    /\ \E s \in BitmapShapes, t \in Textures : MapNew(s[1], s[2], 1, t)
    /\ pc = "idle"
    /\ layer = <<>>
    /\ renders = 0
    /\ call = NoCall
    /\ pb = NoBuffer

\* The point (grid_x + ex/2, grid_y + ey/2) of tile (grid_x, grid_y).
CallBitmap(grid_x, grid_y, ex, ey) ==
    LET point == Point(2 * grid_x + ex, 2 * grid_y + ey, 2)
    IN  /\ call = NoCall
        /\ call' = [fn |-> "get_surrounding_square_bitmap",
                    grid_x |-> grid_x, grid_y |-> grid_y,
                    reads |-> BitmapReads(Self, point),
                    ret |-> get_surrounding_square_bitmap(Self, point)]
        /\ UNCHANGED <<pb, height, width, sim_scale, lights, squares,
                       pixel_buffer, texture, pc, layer, renders>>

NextBitmap ==
    \/ /\ call = NoCall
       /\ \E file \in Grids(height, width) : SquaresFromFile(file)
    \/ /\ call = NoCall
       /\ \E grid_x \in 0 .. width - 1, grid_y \in 0 .. height - 1,
             ex \in 0 .. 1, ey \in 0 .. 1 :
              CallBitmap(grid_x, grid_y, ex, ey)

SpecBitmap == InitBitmap /\ [][NextBitmap]_vars

(***************************************************************************)
(* The line of sight: point_has_los called on two points, and              *)
(* is_within_square on one, whose coordinates are multiples of half a      *)
(* tile, from half a tile outside the grid on one side to half a tile      *)
(* outside on the other.                                                   *)
(***************************************************************************)
LosShapes ==
    { s \in (1 .. MaxLosCells) \X (1 .. MaxLosCells) : s[1] * s[2] <= MaxLosCells }

InitLos ==
    /\ \E s \in LosShapes, t \in Textures : MapNew(s[1], s[2], 1, t)
    /\ pc = "idle"
    /\ layer = <<>>
    /\ renders = 0
    /\ call = NoCall
    /\ pb = NoBuffer

LosPoints ==
    { Point(x, y, 2) : x \in -1 .. 2 * width + 1, y \in -1 .. 2 * height + 1 }

CallPointHasLos(a, b) ==
    /\ call = NoCall
    /\ call' = [fn |-> "point_has_los", a |-> a, b |-> b,
                ret |-> point_has_los(Self, a, b),
                tested |-> LosTested(Self, a, b, LosSteps(a, b), 0)]
    /\ UNCHANGED <<pb, height, width, sim_scale, lights, squares,
                   pixel_buffer, texture, pc, layer, renders>>

CallIsWithinSquare(point) ==
    /\ call = NoCall
    /\ call' = [fn |-> "is_within_square", point |-> point,
                ret |-> is_within_square(Self, point)]
    /\ UNCHANGED <<pb, height, width, sim_scale, lights, squares,
                   pixel_buffer, texture, pc, layer, renders>>

NextLos ==
    \/ /\ call = NoCall
       /\ \E file \in Grids(height, width) : SquaresFromFile(file)
    \/ /\ call = NoCall
       /\ \E a \in LosPoints, b \in LosPoints : CallPointHasLos(a, b)
    \/ /\ call = NoCall
       /\ \E point \in LosPoints : CallIsWithinSquare(point)

SpecLos == InitLos /\ [][NextLos]_vars

(***************************************************************************)
(* The merges and the pixel buffer.  Either pb is a PixelBuffer made by    *)
(* new, its bytes then written through buffer_mut() and one of index_mut   *)
(* and merge called on it; or there is no PixelBuffer, and                 *)
(* merge_pixel_layer is called on a Map of one tile.                       *)
(***************************************************************************)
BufferShapes ==
    { s \in (1 .. MaxPixels) \X (1 .. MaxPixels) : s[1] * s[2] <= MaxPixels }

\* The bytes written through buffer_mut().
BufferBytes == {0, 200}

\* The colours written through index_mut.
WriteColors ==
    { [r |-> 10, g |-> 20, b |-> 30, a |-> 40],
      [r |-> 200, g |-> 0, b |-> 255, a |-> 0] }

\* The colours of the pixels of the overlay handed to merge.
OverlayColors ==
    { [r |-> 200, g |-> 100, b |-> 50, a |-> 0],
      [r |-> 7, g |-> 7, b |-> 7, a |-> 0],
      [r |-> 0, g |-> 200, b |-> 100, a |-> 255],
      [r |-> 100, g |-> 0, b |-> 200, a |-> 128] }

\* The PixelBuffer<Color> of the given size whose pixel p is pixels[p].
OverlayOf(w, h, pixels) ==
    [kind |-> "Color", width |-> w, height |-> h,
     buffer |-> [i \in 0 .. w * h * 4 - 1 |->
                   LET c == pixels[i \div 4]
                   IN  IF i % 4 = 0 THEN c.r
                       ELSE IF i % 4 = 1 THEN c.g
                       ELSE IF i % 4 = 2 THEN c.b
                       ELSE c.a],
     index |-> 0]

\* The layers handed to merge_pixel_layer: byte i of a pixel's colour is
\* i * m mod 256, its alpha is alpha.
LayerOf(self, m, alpha) ==
    [i \in 0 .. PixelHeight(self) * PixelWidth(self) * 4 - 1 |->
        IF i % 4 = 3 THEN alpha ELSE (i * m) % 256]

LayerChoices(self) ==
    { LayerOf(self, c[1], c[2]) :
        c \in {<<7, 255>>, <<11, 0>>, <<13, 0>>, <<17, 128>>} }

InitPixelBuffer ==
    /\ MapNew(1, 1, 1, [len |-> 64 * 48 * 4, variant |-> 1])
    /\ pc = "idle"
    /\ layer = <<>>
    /\ renders = 0
    /\ call = NoCall
    /\ \/ pb = NoBuffer
       \/ \E s \in BufferShapes : pb = PixelBufferColor_new(s[1], s[2])
       \/ \E s \in BufferShapes : pb = PixelBufferColor3_new(s[1], s[2])

\* The byte vector of length len handed to from_buffer.
BytesOf(len) == [i \in 0 .. len - 1 |-> (i * 37 + 5) % 256]

\* The number of calls made on pb so far.
CallDepth == IF call = NoCall THEN 0 ELSE call.depth

\* buffer_mut()[k] = v
BufferMutWrite(k, v) ==
    /\ pb # NoBuffer /\ call = NoCall
    /\ k \in DOMAIN pb.buffer
    /\ pb' = [pb EXCEPT !.buffer[k] = v]
    /\ UNCHANGED <<height, width, sim_scale, lights, squares, pixel_buffer,
                   texture, pc, layer, renders, call>>

\* pb[index] = value, on either kind of PixelBuffer; value.a is dropped for
\* a Color3.
CallIndexMut(index, value) ==
    LET start == IF pb.kind = "Color" THEN index * 4
                 ELSE PixelBufferColor3_index_mut_start(index)
        end == IF pb.kind = "Color" THEN start + 4 ELSE start + 3
        panic == ~SliceInRange(pb, start, end)
    IN  /\ pb # NoBuffer
        /\ pb' = IF panic THEN pb
                 ELSE IF pb.kind = "Color"
                 THEN PixelBufferColor_index_mut(pb, index, value)
                 ELSE PixelBufferColor3_index_mut(
                          pb, index, [r |-> value.r, g |-> value.g, b |-> value.b])
        /\ call' = [fn |-> "index_mut", index |-> index, value |-> value,
                    before |-> pb, panic |-> panic, depth |-> CallDepth + 1]
        /\ UNCHANGED <<height, width, sim_scale, lights, squares,
                       pixel_buffer, texture, pc, layer, renders>>

\* pb.merge(other)
CallMerge(other) ==
    LET m == PixelBufferColor3_merge(pb, other)
    IN  /\ pb # NoBuffer
        /\ pb.kind = "Color3"
        /\ pb' = m.self
        /\ call' = [fn |-> "merge", other |-> other, before |-> pb,
                    panic |-> m.panic, depth |-> CallDepth + 1]
        /\ UNCHANGED <<height, width, sim_scale, lights, squares,
                       pixel_buffer, texture, pc, layer, renders>>

\* self.merge_pixel_layer(other), up to MaxMerges times in a row
CallMergePixelLayer(other) ==
    /\ pb = NoBuffer
    /\ \/ call = NoCall
       \/ call.fn = "merge_pixel_layer" /\ call.depth < MaxMerges
    /\ pixel_buffer' = merge_pixel_layer(Self, other)
    /\ call' = [fn |-> "merge_pixel_layer", other |-> other,
                before |-> pixel_buffer,
                depth |-> IF call = NoCall THEN 1 ELSE call.depth + 1]
    /\ UNCHANGED <<pb, height, width, sim_scale, lights, squares, texture,
                   pc, layer, renders>>

\* pb.next(), from a fresh buffer or after other calls of next; `yielded`
\* holds the colours of the Some(..) returned since the last clear_iter, and
\* `done` whether None has been returned.
IterNext ==
    LET n == IF pb.kind = "Color" THEN PixelBufferColor_next(pb)
             ELSE PixelBufferColor3_next(pb)
        yielded == IF call = NoCall THEN <<>> ELSE call.yielded
    IN  /\ pb # NoBuffer
        /\ call = NoCall \/ call.fn = "next"
        /\ pb' = n.self
        /\ call' = [fn |-> "next",
                    yielded |-> IF n.some THEN Append(yielded, n.color)
                                ELSE yielded,
                    done |-> ~n.some,
                    resets |-> IF call = NoCall THEN 0 ELSE call.resets]
        /\ UNCHANGED <<height, width, sim_scale, lights, squares,
                       pixel_buffer, texture, pc, layer, renders>>

\* pb.clear_iter(), once, after calls of next
ClearIter ==
    /\ pb # NoBuffer
    /\ call # NoCall /\ call.fn = "next" /\ call.resets = 0
    /\ pb' = PixelBuffer_clear_iter(pb)
    /\ call' = [fn |-> "next", yielded |-> <<>>, done |-> FALSE, resets |-> 1]
    /\ UNCHANGED <<height, width, sim_scale, lights, squares, pixel_buffer,
                   texture, pc, layer, renders>>

\* pb.upscale(factor)
CallUpscale(factor) ==
    /\ pb # NoBuffer
    /\ pb' = IF pb.kind = "Color" THEN PixelBufferColor_upscale(pb, factor)
             ELSE PixelBufferColor3_upscale(pb, factor)
    /\ call' = [fn |-> "upscale", factor |-> factor, before |-> pb,
                panic |-> FALSE, depth |-> CallDepth + 1]
    /\ UNCHANGED <<height, width, sim_scale, lights, squares, pixel_buffer,
                   texture, pc, layer, renders>>

\* self.save_upscaled(path, scale), after the calls of merge_pixel_layer
CallSaveUpscaled(scale) ==
    /\ pb = NoBuffer
    /\ call = NoCall \/ call.fn = "merge_pixel_layer"
    /\ call' = [fn |-> "save_upscaled", scale |-> scale,
                saved |-> save_upscaled(Self, scale)]
    /\ UNCHANGED <<pb, height, width, sim_scale, lights, squares,
                   pixel_buffer, texture, pc, layer, renders>>

NextPixelBuffer ==
    \/ IterNext
    \/ ClearIter
    \/ /\ pb # NoBuffer /\ call = NoCall
       /\ \E factor \in 1 .. MaxFactor : CallUpscale(factor)
    \/ /\ pb = NoBuffer
       /\ \E scale \in 1 .. MaxFactor : CallSaveUpscaled(scale)
    \/ /\ pb # NoBuffer /\ call = NoCall
       /\ \E k \in DOMAIN pb.buffer, v \in BufferBytes : BufferMutWrite(k, v)
    \/ /\ pb # NoBuffer /\ call = NoCall
       /\ \E index \in 0 .. pb.width * pb.height, value \in WriteColors :
              CallIndexMut(index, value)
    \/ /\ pb # NoBuffer /\ call = NoCall
       /\ pb.kind = "Color3"
       /\ \E pixels \in [0 .. pb.width * pb.height - 1 -> OverlayColors] :
              CallMerge(OverlayOf(pb.width, pb.height, pixels))
    \/ /\ pb = NoBuffer
       /\ \E other \in LayerChoices(Self) : CallMergePixelLayer(other)

SpecPixelBuffer == InitPixelBuffer /\ [][NextPixelBuffer]_vars

(***************************************************************************)
(* Sequences of operations: up to MaxCalls calls of index_mut, merge and   *)
(* upscale, in any order, on a PixelBuffer from new or from_buffer, a      *)
(* panic ending the sequence; or, when there is no PixelBuffer, the        *)
(* operations of the Map of one tile.                                      *)
(***************************************************************************)
InitBufferOps ==
    /\ MapNew(1, 1, 1, [len |-> 64 * 48 * 4, variant |-> 1])
    /\ pc = "idle"
    /\ layer = <<>>
    /\ renders = 0
    /\ call = NoCall
    /\ \/ pb = NoBuffer
       \/ \E s \in BufferShapes : pb = PixelBufferColor_new(s[1], s[2])
       \/ \E s \in BufferShapes : pb = PixelBufferColor3_new(s[1], s[2])
       \/ \E s \in BufferShapes :
             pb = PixelBufferColor_from_buffer(BytesOf(s[1] * s[2] * 4), s[2], s[1])
       \/ \E s \in BufferShapes :
             pb = PixelBufferColor3_from_buffer(BytesOf(s[1] * s[2] * 3), s[2], s[1])

\* Whether another call can be made on pb.
MayCall ==
    /\ pb # NoBuffer
    /\ IF call = NoCall THEN TRUE
       ELSE call.depth < MaxCalls /\ ~call.panic

NextBufferOps ==
    \/ /\ MayCall
       /\ \E index \in 0 .. pb.width * pb.height, value \in WriteColors :
              CallIndexMut(index, value)
    \/ /\ MayCall
       /\ pb.kind = "Color3"
       /\ \E c \in OverlayColors :
              CallMerge(OverlayOf(pb.width, pb.height,
                                  [p \in 0 .. pb.width * pb.height - 1 |-> c]))
    \/ /\ MayCall
       /\ \E factor \in 0 .. MaxFactor :
              /\ pb.width * pb.height * factor * factor <= MaxUpscaled
              /\ CallUpscale(factor)
    \/ /\ pb = NoBuffer
       /\ Next

SpecBufferOps == InitBufferOps /\ [][NextBufferOps]_vars

(***************************************************************************)
(* Construction: new and from_buffer called with any width and height,     *)
(* zero included, and a byte vector of any length.                         *)
(***************************************************************************)
InitConstruct ==
    /\ MapNew(1, 1, 1, [len |-> 64 * 48 * 4, variant |-> 1])
    /\ pc = "idle"
    /\ layer = <<>>
    /\ renders = 0
    /\ call = NoCall
    /\ pb = NoBuffer

\* PixelBuffer::<Color>::new(w, h) or PixelBuffer::<Color3>::new(w, h)
CallNew(kind, w, h) ==
    LET panic == ~DimensionsAsserted(w, h)
    IN  /\ call = NoCall
        /\ pb' = IF panic THEN NoBuffer
                 ELSE IF kind = "Color" THEN PixelBufferColor_new(w, h)
                 ELSE PixelBufferColor3_new(w, h)
        /\ call' = [fn |-> "new", kind |-> kind, width |-> w, height |-> h,
                    panic |-> panic]
        /\ UNCHANGED <<height, width, sim_scale, lights, squares,
                       pixel_buffer, texture, pc, layer, renders>>

\* PixelBuffer::<Color>::from_buffer(buffer, h, w) or the same for Color3
CallFromBuffer(kind, buffer, h, w) ==
    LET message == FromBufferAsserts(buffer, h, w, IF kind = "Color" THEN 4 ELSE 3)
    IN  /\ call = NoCall
        /\ pb' = IF message # "ok" THEN NoBuffer
                 ELSE IF kind = "Color" THEN PixelBufferColor_from_buffer(buffer, h, w)
                 ELSE PixelBufferColor3_from_buffer(buffer, h, w)
        /\ call' = [fn |-> "from_buffer", kind |-> kind, width |-> w,
                    height |-> h, buffer |-> buffer, message |-> message]
        /\ UNCHANGED <<height, width, sim_scale, lights, squares,
                       pixel_buffer, texture, pc, layer, renders>>

NextConstruct ==
    \/ /\ call = NoCall
       /\ \E kind \in {"Color", "Color3"}, w \in 0 .. MaxPixels, h \in 0 .. MaxPixels :
              CallNew(kind, w, h)
    \/ /\ call = NoCall
       /\ \E kind \in {"Color", "Color3"}, w \in 0 .. MaxPixels, h \in 0 .. MaxPixels,
             len \in 0 .. 4 * MaxPixels + 1 :
              CallFromBuffer(kind, BytesOf(len), h, w)

SpecConstruct == InitConstruct /\ [][NextConstruct]_vars

(***************************************************************************)
(* The colours: blend, interpolate and brighten called on colours and      *)
(* factors drawn from the sets below.                                      *)
(***************************************************************************)
InitColor ==
    /\ MapNew(1, 1, 1, [len |-> 64 * 48 * 4, variant |-> 1])
    /\ pc = "idle"
    /\ layer = <<>>
    /\ renders = 0
    /\ call = NoCall
    /\ pb = NoBuffer

ColorChoices ==
    { [r |-> 3, g |-> 6, b |-> 12, a |-> 255],
      [r |-> 10, g |-> 100, b |-> 200, a |-> 0],
      [r |-> 0, g |-> 0, b |-> 0, a |-> 0],
      [r |-> 255, g |-> 255, b |-> 255, a |-> 255],
      [r |-> 254, g |-> 1, b |-> 128, a |-> 77] }

\* The f64 factors: 0.0, 1.0, 0.5, 0.3, 0.1, 0.9, 2.0, -1.0 and NaN.
F64Choices ==
    { F64FromNat(0), F64FromNat(1),
      F64FromParts(FALSE, 0, 1, -1),
      F64FromParts(FALSE, 40265318, 53687091, -54),
      F64FromParts(FALSE, 26843545, 80530637, -55),
      F64FromParts(FALSE, 60397977, 80530637, -53),
      F64FromNat(2),
      F64Neg(F64FromNat(1)),
      F64NaN }

\* The i32 amounts of brighten, i32::MAX and i32::MIN among them.
AmountChoices ==
    { 0, 1, -1, 100, -100, 255, -255, 300, I32Max - 254, I32Max, -I32Max - 1 }

\* self.blend(other, factor) on Color
CallBlend(self, other, factor) ==
    /\ call = NoCall
    /\ call' = [fn |-> "blend", self |-> self, other |-> other,
                factor |-> factor, ret |-> Color_blend_f64(self, other, factor)]
    /\ UNCHANGED <<pb, height, width, sim_scale, lights, squares,
                   pixel_buffer, texture, pc, layer, renders>>

\* self.blend(other, factor) on Color3
CallBlend3(self, other, factor) ==
    /\ call = NoCall
    /\ call' = [fn |-> "blend", self |-> self, other |-> other,
                factor |-> factor, ret |-> Color3_blend_f64(self, other, factor)]
    /\ UNCHANGED <<pb, height, width, sim_scale, lights, squares,
                   pixel_buffer, texture, pc, layer, renders>>

\* self.interpolate(other, t)
CallInterpolate(self, other, t) ==
    /\ call = NoCall
    /\ call' = [fn |-> "interpolate", self |-> self, other |-> other, t |-> t,
                ret |-> Color_interpolate(self, other, t)]
    /\ UNCHANGED <<pb, height, width, sim_scale, lights, squares,
                   pixel_buffer, texture, pc, layer, renders>>

\* a.blend(b, t) and a.interpolate(b, 1.0 - t), side by side
CallBlendAndInterpolate(a, b, t) ==
    /\ call = NoCall
    /\ call' = [fn |-> "blend and interpolate", a |-> a, b |-> b, t |-> t,
                blend |-> Color_blend_f64(a, b, t),
                interpolate |-> Color_interpolate(a, b, F64Sub(F64FromNat(1), t))]
    /\ UNCHANGED <<pb, height, width, sim_scale, lights, squares,
                   pixel_buffer, texture, pc, layer, renders>>

\* c.brighten(amount) and, where it returns and -amount is an i32,
\* c.brighten(amount).brighten(-amount)
CallBrighten(c, amount, checks) ==
    LET first == Color_brighten(c, amount, checks)
        back == IF first.panic \/ amount = -I32Max - 1 THEN first
                ELSE Color_brighten(first.color, -amount, checks)
    IN  /\ call = NoCall
        /\ call' = [fn |-> "brighten", c |-> c, amount |-> amount,
                    checks |-> checks, panic |-> first.panic,
                    ret |-> first.color, back |-> back]
        /\ UNCHANGED <<pb, height, width, sim_scale, lights, squares,
                       pixel_buffer, texture, pc, layer, renders>>

NextColor ==
    \/ /\ call = NoCall
       /\ \E self \in ColorChoices, other \in ColorChoices, factor \in F64Choices :
              CallBlend(self, other, factor)
    \/ /\ call = NoCall
       /\ \E self \in ColorChoices, other \in ColorChoices, factor \in F64Choices :
              CallBlend3([r |-> self.r, g |-> self.g, b |-> self.b],
                         [r |-> other.r, g |-> other.g, b |-> other.b], factor)
    \/ /\ call = NoCall
       /\ \E self \in ColorChoices, other \in ColorChoices, t \in F64Choices :
              CallInterpolate(self, other, t)
    \/ /\ call = NoCall
       /\ \E a \in ColorChoices, b \in ColorChoices, t \in F64Choices :
              CallBlendAndInterpolate(a, b, t)
    \/ /\ call = NoCall
       /\ \E c \in ColorChoices, amount \in AmountChoices, checks \in BOOLEAN :
              CallBrighten(c, amount, checks)

SpecColor == InitColor /\ [][NextColor]_vars

(***************************************************************************)
(* Claims.                                                                 *)
(***************************************************************************)
\* The sub-tile offset of pixel coordinate v: its position within its tile,
\* in texels.
TexelOffset(v) == (v \div sim_scale) % 8

\* C1: for every 8-bit bitmap and every sub-tile offset (ox, oy) in 0 .. 7,
\* get_tex_cord returns (x, y) with 0 <= x <= 63 and 0 <= y <= 47 whose tile
\* corner (x - ox, y - oy) is a multiple of 8 on both axes, at most (56, 40).
C1_TexCordInAtlas ==
    call.fn = "get_tex_cord" =>
        LET cx == call.ret[1] - TexelOffset(call.x)
            cy == call.ret[2] - TexelOffset(call.y)
        IN  /\ call.ret[1] \in 0 .. 63
            /\ call.ret[2] \in 0 .. 47
            /\ cx % 8 = 0 /\ cx >= 0 /\ cx <= 56
            /\ cy % 8 = 0 /\ cy >= 0 /\ cy <= 40

\* C1 witness: the all-neighbours bitmap at sub-tile offset (7, 7) of the
\* second tile of a row.
C1_Witness ==
    /\ call.fn = "get_tex_cord"
    /\ call.bitmap = 255
    /\ call.x \div sim_scale = 15
    /\ TexelOffset(call.y) = 7

\* The weight of the bit of the neighbour at column offset dx, row offset dy.
NeighbourWeight(dx, dy) ==
    IF dy = -1 THEN (IF dx = -1 THEN 128 ELSE IF dx = 0 THEN 64 ELSE 32)
    ELSE IF dy = 0 THEN (IF dx = -1 THEN 16 ELSE 8)
    ELSE (IF dx = -1 THEN 4 ELSE IF dx = 0 THEN 2 ELSE 1)

NeighbourOffsets == { d \in (-1 .. 1) \X (-1 .. 1) : d # <<0, 0>> }

\* C2: for a tile inside the grid, get_surrounding_square_bitmap returns a
\* byte whose most significant bit is the top-left neighbour and whose least
\* significant bit is the bottom-right one, each bit set exactly when that
\* neighbour lies inside the grid and is occupied; no square outside the
\* grid is read.
C2_BitmapOfNeighbours ==
    call.fn = "get_surrounding_square_bitmap" =>
        /\ call.ret \in 0 .. 255
        /\ \A d \in NeighbourOffsets :
              LET nx == call.grid_x + d[1]
                  ny == call.grid_y + d[2]
                  inside == nx >= 0 /\ nx < width /\ ny >= 0 /\ ny < height
              IN  BitSet(call.ret, NeighbourWeight(d[1], d[2]))
                      <=> (inside /\ squares[ny][nx])
        /\ \A cell \in call.reads :
              /\ cell[1] \in 0 .. height - 1
              /\ cell[2] \in 0 .. width - 1

\* C2 witness: a corner tile of a grid of more than one row and column
\* whose three neighbours inside the grid are occupied.
C2_Witness ==
    /\ call.fn = "get_surrounding_square_bitmap"
    /\ call.grid_x = 0 /\ call.grid_y = 0
    /\ width > 1 /\ height > 1
    /\ call.ret = 8 + 2 + 1

\* The pixels of the buffer, as <<x, y>>.
Pixels == (0 .. width * 8 * sim_scale - 1) \X (0 .. height * 8 * sim_scale - 1)

\* Whether pixel p lies inside an occupied tile.
InOccupiedTile(p) ==
    squares[p[2] \div (8 * sim_scale)][p[1] \div (8 * sim_scale)]

\* The RGBA texel at (tx, ty) of the atlas.
Texel(tx, ty) ==
    [c \in 0 .. 3 |-> TextureByte(texture, (ty * 64 + tx) * 4 + c)]

\* The RGBA bytes of pixel p in the layer of color_walls.
LayerPixel(p) ==
    [c \in 0 .. 3 |-> layer[(p[2] * width * 8 * sim_scale + p[1]) * 4 + c]]

\* The table coordinate of the bitmask of the tile of pixel p.
TileTexCord(p) ==
    TexTable[get_surrounding_square_bitmap(Self, ScaledPoint(Self, p[1], p[2])) + 1]

\* C3 as stated: for any sim_scale >= 1, the texel color_walls samples for
\* a pixel (x, y) of an occupied tile is (tx + x mod 8, ty + y mod 8).
C3_TexelAtPixelMod8 ==
    pc = "walls" =>
        \A p \in Pixels :
            InOccupiedTile(p) =>
                LayerPixel(p) = Texel(TileTexCord(p)[1] + (p[1] % 8),
                                      TileTexCord(p)[2] + (p[2] % 8))

\* C3 amended: the texel color_walls samples for a pixel (x, y) of an
\* occupied tile is (tx + (x div sim_scale) mod 8, ty + (y div sim_scale)
\* mod 8), with no rotation or mirroring; this is (tx + x mod 8,
\* ty + y mod 8) when sim_scale = 1.
C3_TexelAtScaledPixel ==
    pc = "walls" =>
        \A p \in Pixels :
            InOccupiedTile(p) =>
                LayerPixel(p) = Texel(TileTexCord(p)[1] + ((p[1] \div sim_scale) % 8),
                                      TileTexCord(p)[2] + ((p[2] \div sim_scale) % 8))

\* C3 witness: the layer of a Map with sim_scale 2 and an occupied tile.
C3_Witness ==
    /\ pc = "walls"
    /\ sim_scale >= 2
    /\ \E p \in Pixels : InOccupiedTile(p)

\* The RGB bytes of pixel p in buffer buf.
BufferPixel(buf, p) ==
    [c \in 0 .. 2 |-> buf[(p[2] * width * 8 * sim_scale + p[1]) * 3 + c]]

\* C4: after the wall layer is merged, the rest of render (with or without
\* lights) changes no pixel of an occupied tile.
C4_OccupiedPixelsKeepWallColour ==
    [][pc = "merged" =>
          \A p \in Pixels :
              InOccupiedTile(p) =>
                  BufferPixel(pixel_buffer', p) = BufferPixel(pixel_buffer, p)]_vars

\* The squared distance from light l to pixel p, in units of (1/(16 * sim_scale))^2,
\* the light's position being in half tiles.
LightDistanceSquared(l, p) ==
    LET u == 8 * sim_scale
    IN  (l.position.x * u - 2 * p[1]) * (l.position.x * u - 2 * p[1])
        + (l.position.y * u - 2 * p[2]) * (l.position.y * u - 2 * p[2])

\* Whether pixel p is nearer to light l than the light's intensity.
LightReaches(l, p) ==
    LET u == 16 * sim_scale
    IN  LightDistanceSquared(l, p) * l.intensity.den * l.intensity.den
            < u * u * l.intensity.num * l.intensity.num

\* C4 witness: a render with a light has completed, and a pixel of an
\* occupied tile is within the range of that light.
C4_Witness ==
    /\ pc = "idle" /\ renders >= 1
    /\ \E k \in 1 .. Len(lights), p \in Pixels :
          InOccupiedTile(p) /\ LightReaches(lights[k], p)

RECURSIVE LightFold(_, _, _)
\* The fold of the claim over the first k lights: acc := light.color.blend(acc,
\* 1 - d/intensity) when d < intensity and the light has line of sight to the
\* pixel, acc unchanged otherwise.
LightFold(start, p, k) ==
    IF k = 0 THEN start
    ELSE LET acc == LightFold(start, p, k - 1)
             l == lights[k]
             u == 16 * sim_scale
             factor == [a |-> u * l.intensity.num, b |-> l.intensity.den,
                        n |-> LightDistanceSquared(l, p),
                        d |-> u * l.intensity.num]
         IN  IF /\ LightReaches(l, p)
                /\ point_has_los(Self, l.position, Point(p[1], p[2], 8 * sim_scale))
             THEN Color_blend(l.color, acc, factor)
             ELSE acc

\* C5: render leaves every pixel outside the occupied tiles at the left fold
\* of the lights, in collection order, over its colour after the wall merge.
C5_UnoccupiedPixelsAreLightFold ==
    [][pc = "merged" =>
          \A p \in Pixels :
              ~InOccupiedTile(p) =>
                  LET start == [r |-> BufferPixel(pixel_buffer, p)[0],
                                g |-> BufferPixel(pixel_buffer, p)[1],
                                b |-> BufferPixel(pixel_buffer, p)[2],
                                a |-> 255]
                      end == LightFold(start, p, Len(lights))
                  IN  BufferPixel(pixel_buffer', p)
                          = [c \in 0 .. 2 |-> IF c = 0 THEN end.r
                                              ELSE IF c = 1 THEN end.g
                                              ELSE end.b]]_vars

\* C5 witness: a second render with two different lights has completed, and
\* both lights reach an unoccupied pixel with line of sight.
C5_Witness ==
    /\ pc = "idle" /\ renders >= 2
    /\ Len(lights) = 2 /\ lights[1] # lights[2]
    /\ \E p \in Pixels :
          /\ ~InOccupiedTile(p)
          /\ \A k \in 1 .. 2 :
                /\ LightReaches(lights[k], p)
                /\ point_has_los(Self, lights[k].position, Point(p[1], p[2], 8 * sim_scale))

\* Whether the centre of cell (cx, cy) lies on the segment from a to b, a and
\* b being in half tiles.
CentreOnSegment(a, b, cx, cy) ==
    LET ux == b.x - a.x
        uy == b.y - a.y
        vx == 2 * cx + 1 - a.x
        vy == 2 * cy + 1 - a.y
    IN  /\ ux * vy - uy * vx = 0
        /\ ux * vx + uy * vy >= 0
        /\ ux * vx + uy * vy <= ux * ux + uy * uy
        /\ (ux = 0 /\ uy = 0) => (vx = 0 /\ vy = 0)

\* Whether the segment from a to b passes through the centre of an occupied cell.
ThroughOccupiedCentre(a, b) ==
    \E cx \in 0 .. width - 1, cy \in 0 .. height - 1 :
        squares[cy][cx] /\ CentreOnSegment(a, b, cx, cy)

\* C6 as stated: for all points a and b, point_has_los(a, b) is false when
\* the segment from a to b passes through the centre of an occupied cell.
C6_NoLosThroughOccupiedCentre ==
    (call.fn = "point_has_los" /\ ThroughOccupiedCentre(call.a, call.b))
        => call.ret = FALSE

\* C6 amended: for all points a # b, point_has_los(a, b) is false when the
\* segment from a to b passes through the centre of an occupied cell.
C6_NoLosThroughOccupiedCentreDistinct ==
    (/\ call.fn = "point_has_los"
     /\ call.a # call.b
     /\ ThroughOccupiedCentre(call.a, call.b))
        => call.ret = FALSE

\* C6 witness: point_has_los has returned false for two points outside the
\* occupied cell whose centre lies between them.
C6_Witness ==
    /\ call.fn = "point_has_los"
    /\ call.a # call.b
    /\ ThroughOccupiedCentre(call.a, call.b)
    /\ ~is_within_square(Self, call.a)
    /\ ~is_within_square(Self, call.b)
    /\ call.ret = FALSE

\* C7: point_has_los(p, p) is true for every point p, inside an occupied cell
\* or not.
C7_LosToSelf ==
    (call.fn = "point_has_los" /\ call.a = call.b) => call.ret = TRUE

\* C7 witness: point_has_los(p, p) has returned true for the centre p of an
\* occupied cell.
C7_Witness ==
    /\ call.fn = "point_has_los"
    /\ call.a = call.b
    /\ ThroughOccupiedCentre(call.a, call.b)
    /\ call.ret = TRUE

\* The ch bytes of pixel p of a buffer of ch channels.
PixelBytes(buf, p, ch) == [c \in 0 .. ch - 1 |-> buf[p * ch + c]]

\* The bytes of a Color3.
Color3Bytes(c) ==
    [k \in 0 .. 2 |-> IF k = 0 THEN c.r ELSE IF k = 1 THEN c.g ELSE c.b]

\* C8: merge with an overlay of equal dimensions leaves every pixel p of the
\* base at overlay_rgb[p].blend(base_before[p], overlay.a[p] / 255).
C8_MergeCompositesEveryPixel ==
    call.fn = "merge" =>
        /\ ~call.panic
        /\ \A p \in 0 .. pb.width * pb.height - 1 :
              LET o == PixelBytes(call.other.buffer, p, 4)
                  s == PixelBytes(call.before.buffer, p, 3)
              IN  PixelBytes(pb.buffer, p, 3)
                      = Color3Bytes(Color3_blend(
                            [r |-> o[0], g |-> o[1], b |-> o[2]],
                            [r |-> s[0], g |-> s[1], b |-> s[2]],
                            Rational(o[3], 255)))

\* C9: a merge of an overlay whose alpha is 0 at every pixel leaves every
\* byte of the base unchanged, in PixelBuffer<Color3>::merge and in
\* Map::merge_pixel_layer.
C9_ZeroAlphaMergeKeepsBase ==
    /\ (/\ call.fn = "merge"
        /\ \A p \in 0 .. pb.width * pb.height - 1 :
              call.other.buffer[4 * p + 3] = 0)
           => (~call.panic /\ pb.buffer = call.before.buffer)
    /\ (/\ call.fn = "merge_pixel_layer"
        /\ \A p \in 0 .. width * 8 * sim_scale * height * 8 * sim_scale - 1 :
              call.other[4 * p + 3] = 0)
           => pixel_buffer = call.before

\* C9 witness: merge has run on a base whose first pixel is not black, with
\* an overlay of alpha 0 whose first pixel is not black.
C9_Witness ==
    /\ call.fn = "merge"
    /\ \A p \in 0 .. pb.width * pb.height - 1 :
          call.other.buffer[4 * p + 3] = 0
    /\ call.other.buffer[0] # 0
    /\ call.before.buffer[0] # 0
    /\ call.before.buffer[0] # call.other.buffer[0]

\* C10: for both kinds of PixelBuffer and every index i < width * height, a
\* write of colour c to index i followed by a read of index i returns c, and
\* no byte outside [i * channels, (i + 1) * channels) changes.
C10_ReadAndWriteSamePixel ==
    (call.fn = "index_mut" /\ call.index < pb.width * pb.height) =>
        LET ch == IF pb.kind = "Color" THEN 4 ELSE 3
            i == call.index
        IN  /\ ~call.panic
            /\ IF pb.kind = "Color"
               THEN PixelBufferColor_index(pb, i) = call.value
               ELSE PixelBufferColor3_index(pb, i)
                        = [r |-> call.value.r, g |-> call.value.g,
                           b |-> call.value.b]
            /\ \A k \in DOMAIN pb.buffer :
                  (k < i * ch \/ k >= (i + 1) * ch)
                      => pb.buffer[k] = call.before.buffer[k]

\* The colour of pixel p of buffer self, as the record the iterator yields.
PixelColor(self, p) ==
    IF self.kind = "Color"
    THEN [r |-> self.buffer[4 * p], g |-> self.buffer[4 * p + 1],
          b |-> self.buffer[4 * p + 2], a |-> self.buffer[4 * p + 3]]
    ELSE [r |-> self.buffer[3 * p], g |-> self.buffer[3 * p + 1],
          b |-> self.buffer[3 * p + 2]]

\* C11: iterating a PixelBuffer from a fresh or clear_iter-reset state until
\* None has yielded exactly width * height colours, the k-th being pixel k in
\* row-major order.
C11_IterationYieldsEveryPixel ==
    (call.fn = "next" /\ call.done) =>
        /\ Len(call.yielded) = pb.width * pb.height
        /\ \A k \in 1 .. Len(call.yielded) :
              call.yielded[k] = PixelColor(pb, k - 1)

\* Whether the buffer `new`, w * k pixels wide and h * k pixels high, holds at
\* every pixel (x, y) the ch bytes of pixel (x div k, y div k) of the buffer
\* `old`, w pixels wide and h pixels high, and nothing more.
IsUpscaled(new, old, w, h, ch, k) ==
    /\ DOMAIN new = 0 .. (w * k) * (h * k) * ch - 1
    /\ Cardinality(DOMAIN new) = k * k * Cardinality(DOMAIN old)
    /\ \A x \in 0 .. w * k - 1, y \in 0 .. h * k - 1, c \in 0 .. ch - 1 :
          new[(y * (w * k) + x) * ch + c]
              = old[((y \div k) * w + (x \div k)) * ch + c]

\* C12: upscale(k), k >= 1, multiplies width and height by k, keeps the
\* channel count and gives pixel (x, y) the value of the old pixel
\* (x div k, y div k); save_upscaled builds the same buffer from
\* Map.pixel_buffer.
C12_UpscaleReplicatesBlocks ==
    /\ call.fn = "upscale" =>
          /\ pb.kind = call.before.kind
          /\ pb.width = call.before.width * call.factor
          /\ pb.height = call.before.height * call.factor
          /\ IsUpscaled(pb.buffer, call.before.buffer, call.before.width,
                        call.before.height,
                        IF pb.kind = "Color" THEN 4 ELSE 3, call.factor)
    /\ call.fn = "save_upscaled" =>
          /\ call.saved.width = width * 8 * sim_scale * call.scale
          /\ call.saved.height = height * 8 * sim_scale * call.scale
          /\ IsUpscaled(call.saved.buffer, pixel_buffer, width * 8 * sim_scale,
                        height * 8 * sim_scale, 3, call.scale)

\* C12 witness: a buffer of two pixels that differ has been upscaled by 2.
C12_Witness ==
    /\ call.fn = "upscale"
    /\ call.factor = 2
    /\ call.before.width * call.before.height = 2
    /\ call.before.buffer[0] # call.before.buffer[IF pb.kind = "Color" THEN 4 ELSE 3]

\* C14: from_buffer fails, with the size-mismatch message, when the length is
\* not width * height * channels, new and from_buffer fail when width or
\* height is 0, a failed construction yields no buffer, a buffer from
\* from_buffer holds the bytes given, and every pixel of a
\* PixelBuffer<Color> from new is (0, 0, 0, 255).
C14_ConstructionFailsFast ==
    /\ call.fn = "from_buffer" =>
          LET ch == IF call.kind = "Color" THEN 4 ELSE 3
              len == Cardinality(DOMAIN call.buffer)
          IN  /\ (call.width = 0 \/ call.height = 0) => call.message # "ok"
              /\ (/\ call.width # 0 /\ call.height # 0
                  /\ len # call.width * call.height * ch)
                     => call.message
                            = IF ch = 4
                              THEN "Buffer length must be equal to width * height * 4"
                              ELSE "Buffer length must be equal to width * height * 3"
              /\ call.message # "ok" => pb = NoBuffer
              /\ call.message = "ok" => (pb # NoBuffer /\ pb.buffer = call.buffer)
    /\ call.fn = "new" =>
          /\ (call.width = 0 \/ call.height = 0) => (call.panic /\ pb = NoBuffer)
          /\ (call.width # 0 /\ call.height # 0 /\ call.kind = "Color") =>
                /\ pb # NoBuffer
                /\ \A p \in 0 .. call.width * call.height - 1 :
                      PixelColor(pb, p) = [r |-> 0, g |-> 0, b |-> 0, a |-> 255]

\* C14 witness: from_buffer has refused a vector one byte longer than
\* width * height * 4.
C14_Witness ==
    /\ call.fn = "from_buffer"
    /\ call.kind = "Color"
    /\ call.width * call.height > 0
    /\ Cardinality(DOMAIN call.buffer) = call.width * call.height * 4 + 1
    /\ call.message # "ok"
    /\ pb = NoBuffer

\* C13: the length of the buffer of a PixelBuffer is width * height *
\* channels after new, from_buffer and any sequence of upscale, merge and
\* indexed writes, and the length of Map.pixel_buffer is
\* (height * 8 * sim_scale) * (width * 8 * sim_scale) * 3 before and after
\* render.
C13_BufferLength ==
    /\ pb # NoBuffer =>
          DOMAIN pb.buffer
              = 0 .. pb.width * pb.height * (IF pb.kind = "Color" THEN 4 ELSE 3) - 1
    /\ DOMAIN pixel_buffer
          = 0 .. (height * 8 * sim_scale) * (width * 8 * sim_scale) * 3 - 1

\* C13 witness: a PixelBuffer has been upscaled by 2 and then written or
\* merged into.
C13_Witness ==
    /\ pb # NoBuffer
    /\ call # NoCall
    /\ call.fn \in {"index_mut", "merge"}
    /\ ~call.panic
    /\ call.depth >= 2
    /\ pb.width * pb.height >= 4

\* C15: no Map that render has been called on holds a texture that is not
\* 64 * 48 * 4 bytes long, and color_walls never reads the texture out of
\* bounds.
C15_TextureIsAtlas ==
    pc # "idle" => (texture.len = 64 * 48 * 4 /\ pc # "panicked")

\* The factor of a blend as the exact fraction m / 2^k it stands for once
\* clamped to [0, 1]: 0 below 0, 1 above 1, itself in between.
ClampedFraction(factor) ==
    IF factor.m = <<>> \/ factor.neg THEN [m |-> <<>>, k |-> 0]
    ELSE IF factor.e >= 0 THEN [m |-> <<1>>, k |-> 0]
    ELSE IF LessLimbs(ShiftLeftLimbs(<<1>>, -factor.e), factor.m) THEN [m |-> <<1>>, k |-> 0]
    ELSE [m |-> factor.m, k |-> -factor.e]

\* Whether r is s*g + o*(1 - g) truncated, g the fraction m / 2^k, where the
\* sum is computed exactly or with an error below 2^-40:
\*   r - 2^-40 <= s*g + o*(1 - g) < r + 1 + 2^-40
TruncatedBlend(s, o, g, r) ==
    LET one == ShiftLeftLimbs(<<1>>, g.k)
        exact == AddLimbs(MulLimbs(LimbsOfNat(s), g.m),
                          MulLimbs(LimbsOfNat(o), SubLimbs(one, g.m)))
        scaled == ShiftLeftLimbs(exact, 40)
        low == ShiftLeftLimbs(LimbsOfNat(r), g.k + 40)
        high == ShiftLeftLimbs(LimbsOfNat(r + 1), g.k + 40)
    IN  /\ ~LessLimbs(AddLimbs(scaled, one), low)
        /\ LessLimbs(scaled, AddLimbs(high, one))

C17_BlendEndpointsAsDocumented ==
    call.fn = "blend" =>
        /\ call.factor = F64FromNat(0) => call.ret = call.self
        /\ call.factor = F64FromNat(1) => call.ret = call.other

\* C18: a colour blended with itself, by any factor that is a number, is
\* that colour.
C18_BlendWithItself ==
    (call.fn = "blend" /\ call.self = call.other /\ ~call.factor.nan) =>
        call.ret = call.self

\* Whether the f64 x is in [0, 1]
InUnitInterval(x) ==
    /\ ~x.nan
    /\ ~F64Less(x, F64FromNat(0))
    /\ ~F64Less(F64FromNat(1), x)

\* C19: interpolate(other, 0.0) is self, interpolate(other, 1.0) is other,
\* and for t in [0, 1] a.blend(b, t) equals a.interpolate(b, 1.0 - t).
C19_InterpolateMirrorsBlend ==
    /\ call.fn = "interpolate" =>
           /\ call.t = F64FromNat(0) => call.ret = call.self
           /\ call.t = F64FromNat(1) => call.ret = call.other
    /\ (call.fn = "blend and interpolate" /\ InUnitInterval(call.t)) =>
           call.blend = call.interpolate

\* Whether brighten(amount) leaves the channel v unclamped: 0 <= v + amount <= 255
Unclamped(v, amount) == amount >= -v /\ amount <= 255 - v

\* C20: brighten(amount) returns, with r, g and b each the sum of the
\* channel and amount clamped to 0 .. 255 and with alpha as it was; so
\* brighten(0) returns the colour itself; and brighten(-amount) after
\* brighten(amount) returns the colour where no channel was clamped.
C20_BrightenAddsAndClamps ==
    call.fn = "brighten" =>
        /\ ~call.panic
        /\ call.ret = [r |-> BrightenChannel(call.c.r, call.amount),
                       g |-> BrightenChannel(call.c.g, call.amount),
                       b |-> BrightenChannel(call.c.b, call.amount),
                       a |-> call.c.a]
        /\ call.amount = 0 => call.ret = call.c
        /\ (\A v \in {call.c.r, call.c.g, call.c.b} : Unclamped(v, call.amount)) =>
               (~call.back.panic /\ call.back.color = call.c)

\* The values of t for which lo <= l + t*d < hi, as an interval of rationals
\* with open or closed ends.
AxisInterval(l, d, lo, hi) ==
    IF d = 0
    THEN [empty |-> ~(lo <= l /\ l < hi),
          loN |-> 0, loD |-> 1, loOpen |-> FALSE,
          hiN |-> 1, hiD |-> 1, hiOpen |-> FALSE]
    ELSE IF d > 0
    THEN [empty |-> FALSE,
          loN |-> lo - l, loD |-> d, loOpen |-> FALSE,
          hiN |-> hi - l, hiD |-> d, hiOpen |-> TRUE]
    ELSE [empty |-> FALSE,
          loN |-> l - hi, loD |-> 0 - d, loOpen |-> TRUE,
          hiN |-> l - lo, hiD |-> 0 - d, hiOpen |-> FALSE]

\* Whether the lower end of I lies below the upper end of J, or on it with
\* both ends closed.
LowerMeetsUpper(I, J) ==
    \/ I.loN * J.hiD < J.hiN * I.loD
    \/ I.loN * J.hiD = J.hiN * I.loD /\ ~I.loOpen /\ ~J.hiOpen

\* Whether the straight segment from light l to pixel p has a point in cell
\* (cx, cy), the square [cx, cx + 1) x [cy, cy + 1); lengths in 1/16 of a tile.
SegmentMeetsCell(l, p, cx, cy) ==
    LET lx == l.position.x * 8
        ly == l.position.y * 8
        intervals == { AxisInterval(lx, 2 * p[1] - lx, 16 * cx, 16 * cx + 16),
                       AxisInterval(ly, 2 * p[2] - ly, 16 * cy, 16 * cy + 16),
                       AxisInterval(0, 0, 0, 1) }
    IN  \A I \in intervals, J \in intervals : ~I.empty /\ LowerMeetsUpper(I, J)

\* The light of the scene of C21: white, at (1.5, 1.5), of intensity 1.5.
WhiteLight ==
    [position |-> Point(3, 3, 2),
     color |-> [r |-> 255, g |-> 255, b |-> 255, a |-> 255],
     intensity |-> [num |-> 3, den |-> 2]]

\* The scene of C21, rendered: only cell (0, 0) occupied, the one light.
SceneRendered ==
    /\ pc = "idle" /\ renders = 1
    /\ height = 2 /\ width = 2 /\ sim_scale = 1
    /\ squares = [y \in 0 .. 1 |-> [x \in 0 .. 1 |-> x = 0 /\ y = 0]]
    /\ lights = <<WhiteLight>>

\* The pixels of tile (cx, cy).
TilePixels(cx, cy) == { p \in Pixels : p[1] \div 8 = cx /\ p[2] \div 8 = cy }

\* The RGB bytes a texel leaves on a zero pixel: the texel where it is opaque.
TexelOnBlack(t) == [c \in 0 .. 2 |-> BlendChannel(t[c], 0, Rational(t[3], 255))]

\* C21: in the rendered scene, a pixel of tile (0, 0) shows the texel of the
\* tile of bitmask 0 at the pixel's offset, unlit; every channel of a pixel
\* of tile (1, 1) is above its unlit value 0; and a pixel of tile (1, 0) or
\* (0, 1) differs from its unlit value exactly when it is nearer to the
\* light than 1.5 and the segment to the light does not meet cell (0, 0).
C21_SceneOfTwoByTwo ==
    SceneRendered =>
        /\ \A p \in TilePixels(0, 0) :
              BufferPixel(pixel_buffer, p)
                  = TexelOnBlack(Texel(TexTable[1][1] + (p[1] % 8),
                                       TexTable[1][2] + (p[2] % 8)))
        /\ \A p \in TilePixels(1, 1) :
              \A c \in 0 .. 2 : BufferPixel(pixel_buffer, p)[c] > 0
        /\ \A p \in TilePixels(1, 0) \cup TilePixels(0, 1) :
              (BufferPixel(pixel_buffer, p) # [c \in 0 .. 2 |-> 0])
                  <=> (/\ LightReaches(WhiteLight, p)
                       /\ ~SegmentMeetsCell(WhiteLight, p, 0, 0))

\* C21 witness: the rendered scene, with a lit and an unlit pixel in tile
\* (1, 0) and a pixel of tile (0, 0) that is not black.
C21_Witness ==
    /\ SceneRendered
    /\ \E p \in TilePixels(1, 0) : BufferPixel(pixel_buffer, p) # [c \in 0 .. 2 |-> 0]
    /\ \E p \in TilePixels(1, 0) : BufferPixel(pixel_buffer, p) = [c \in 0 .. 2 |-> 0]
    /\ \E p \in TilePixels(0, 0) : BufferPixel(pixel_buffer, p) # [c \in 0 .. 2 |-> 0]

\* The buffer that holds the sequential render of `start` at the pixels of
\* the workers in `done` and the bytes of `start` elsewhere.
SequentialFor(start, done) ==
    LET sequential == Tabulated(render(start))
    IN  [i \in DOMAIN start.pixel_buffer |->
            IF WorkerOf(start, i \div 3) \in done THEN sequential[i]
            ELSE start.pixel_buffer[i]]

\* C22: however the workers are ordered, the bytes of a pixel whose worker
\* has run are those the sequential render gives from the Map as it was when
\* the render began, and the bytes of every other pixel are as they were.
C22_RenderOrderIndependent ==
    call.fn = "render by workers" =>
        pixel_buffer = SequentialFor(call.start, call.done)

\* C22 witness: all workers have run, from a buffer an earlier render left
\* lit, on a Map with a wall and a light; the render changed the buffer.
C22_Witness ==
    /\ call.fn = "render by workers"
    /\ call.done = 0 .. MaxWorkers - 1
    /\ renders = 1
    /\ Len(lights) >= 1
    /\ \E y \in 0 .. height - 1, x \in 0 .. width - 1 : squares[y][x]
    /\ pixel_buffer # call.start.pixel_buffer

\* N of C23 for points in half tiles: 20 times the least whole number that
\* is at least the distance from a to b.
SampleCount(a, b) ==
    LET n == (b.x - a.x) * (b.x - a.x) + (b.y - a.y) * (b.y - a.y)
    IN  20 * (CHOOSE k \in 0 .. n : 4 * k * k >= n /\ (k = 0 \/ 4 * (k - 1) * (k - 1) < n))

\* Whether the point a + (b - a) * i / N lies in an occupied cell of the
\* grid, a and b being in half tiles.
SampleInOccupiedCell(a, b, N, i) ==
    LET X == a.x * N + (b.x - a.x) * i
        Y == a.y * N + (b.y - a.y) * i
    IN  /\ 0 <= X /\ X < width * 2 * N
        /\ 0 <= Y /\ Y < height * 2 * N
        /\ squares[Y \div (2 * N)][X \div (2 * N)]

\* C23: point_has_los(a, b) tests the points a + (b - a) * i / N for
\* i = 0, 1, .. in turn, N being ceil(distance) * 20, stops with false at
\* the first that lies in an occupied cell, and returns true after N points
\* when none does.
C23_LosSamplesInOrder ==
    call.fn = "point_has_los" =>
        LET N == SampleCount(call.a, call.b)
            hits == { i \in 0 .. N - 1 : SampleInOccupiedCell(call.a, call.b, N, i) }
        IN  /\ call.ret = (hits = {})
            /\ call.tested = IF hits = {} THEN N
                             ELSE 1 + CHOOSE i \in hits : \A j \in hits : i <= j

\* Whether the point lies in the rectangle [0, width) x [0, height) of the grid.
InGridRectangle(point) ==
    /\ 0 <= point.x /\ point.x < width * point.q
    /\ 0 <= point.y /\ point.y < height * point.q

\* C25: is_within_square is false for every point outside the rectangle of
\* the grid, a negative coordinate included, and point_has_los(a, b) is not
\* made false by samples outside the grid: it is true when no sample lies in
\* an occupied cell.
C25_OutsideGridIsNotASquare ==
    /\ (call.fn = "is_within_square" /\ ~InGridRectangle(call.point)) =>
           call.ret = FALSE
    /\ call.fn = "point_has_los" =>
           LET N == SampleCount(call.a, call.b)
           IN  (\A i \in 0 .. N - 1 : ~SampleInOccupiedCell(call.a, call.b, N, i))
                   => call.ret = TRUE

\* The corner bits of a bitmap with the weights of the two cardinal bits
\* next to each: top-left (top, left), top-right (top, right), bottom-left
\* (left, bottom), bottom-right (right, bottom).
CornerBits == { <<128, 64, 16>>, <<32, 64, 8>>, <<4, 16, 2>>, <<1, 8, 2>> }

\* Whether two bitmaps agree on the four cardinal bits and on every corner
\* bit whose two cardinal neighbours are set.
SameUpToFreeCorners(m, n) ==
    /\ \A w \in {64, 16, 8, 2} : BitSet(m, w) <=> BitSet(n, w)
    /\ \A c \in CornerBits :
          (BitSet(m, c[2]) /\ BitSet(m, c[3])) => (BitSet(m, c[1]) <=> BitSet(n, c[1]))

\* C24: at any point, get_tex_cord returns the same texel for two bitmaps
\* that agree on the cardinal bits and on the corner bits between two set
\* cardinal bits; so a bitmap without cardinal bits gives the texel of
\* bitmap 0.
C24_FreeCornersIgnored ==
    call.fn = "get_tex_cord" =>
        \A other \in 0 .. 255 :
            SameUpToFreeCorners(call.bitmap, other) =>
                get_tex_cord(Self, ScaledPoint(Self, call.x, call.y), other) = call.ret

\* C26: on a Map that has been rendered, render leaves pixel_buffer as it
\* finds it.
C26_RenderTwiceSameBuffer ==
    (pc = "idle" /\ renders = 1) => render(Self) = pixel_buffer

\* C27: a PixelBuffer made by new or from_buffer has, after any calls of
\* index_mut, merge and upscale, a width and a height above 0.
C27_DimensionsStayPositive ==
    pb # NoBuffer => (pb.width > 0 /\ pb.height > 0)

\* Whether r lies between l and p inclusive.
Between(l, p, r) ==
    /\ (IF l < p THEN l ELSE p) <= r
    /\ r <= (IF l < p THEN p ELSE l)

\* Whether light k is blended into pixel p: it is nearer than its intensity
\* and has line of sight to the pixel.
LightApplies(k, p) ==
    /\ LightReaches(lights[k], p)
    /\ point_has_los(Self, lights[k].position, Point(p[1], p[2], 8 * sim_scale))

\* The colour of pixel p in buffer buf, as render reads it.
PixelColorOf(buf, p) ==
    [r |-> BufferPixel(buf, p)[0], g |-> BufferPixel(buf, p)[1],
     b |-> BufferPixel(buf, p)[2], a |-> 255]

\* Whether every blend of a light into pixel p, starting from colour start,
\* stays between the light and the colour before it, never lowers a channel
\* when the light is white, and gives the light's colour at distance 0.
BlendsStayBetween(start, p) ==
    \A k \in 1 .. Len(lights) :
        LightApplies(k, p) =>
            LET before == LightFold(start, p, k - 1)
                after == LightFold(start, p, k)
                l == lights[k].color
            IN  /\ Between(l.r, before.r, after.r)
                /\ Between(l.g, before.g, after.g)
                /\ Between(l.b, before.b, after.b)
                /\ (l.r = 255 /\ l.g = 255 /\ l.b = 255) =>
                      (after.r >= before.r /\ after.g >= before.g
                       /\ after.b >= before.b)
                /\ LightDistanceSquared(lights[k], p) = 0 => after = l

C29_LosSymmetric ==
    call.fn = "point_has_los" =>
        call.ret = point_has_los(Self, call.b, call.a)

\* Whether light l lies inside an occupied tile of the grid.
LightInOccupiedTile(l) ==
    /\ l.position.x >= 0 /\ l.position.y >= 0
    /\ l.position.x \div l.position.q < width
    /\ l.position.y \div l.position.q < height
    /\ squares[l.position.y \div l.position.q][l.position.x \div l.position.q]

\* The Map without its light k.
WithoutLight(k) ==
    [Self EXCEPT !.lights = [j \in 1 .. Len(lights) - 1 |->
                                IF j < k THEN lights[j] ELSE lights[j + 1]]]

\* C30: a light inside an occupied tile contributes to no pixel: the pixel
\* loop of render leaves every pixel as it would without that light.
C30_LightInOccupiedTileIsDark ==
    [][(pc = "merged" /\ Len(lights) # 0) =>
          \A k \in 1 .. Len(lights) :
              LightInOccupiedTile(lights[k]) =>
                  pixel_buffer' = RenderLoop(WithoutLight(k))]_vars

\* C30 witness: a render has completed with a light inside an occupied tile
\* that is in range of an unoccupied pixel, and only the first sample of the
\* segment from the light to the pixel is in an occupied tile.
C30_Witness ==
    /\ pc = "idle" /\ renders = 1
    /\ \E k \in 1 .. Len(lights), p \in Pixels :
          LET a == lights[k].position
              b == Point(p[1], p[2], 8 * sim_scale)
          IN  /\ LightInOccupiedTile(lights[k])
              /\ ~InOccupiedTile(p)
              /\ LightReaches(lights[k], p)
              /\ LosLoop(Self, a, b, LosSteps(a, b), 1)

====
